---- MODULE Spec2Model ----
(***************************************************************************)
(* Verification model of the layered plan (internals/plan), the plan       *)
(* manager (internals/overlord/planstate), the state lock and checkpoint   *)
(* (internals/overlord/state) and the wait-for ordering of tasks in a      *)
(* Change (internal/overlord/fwstate).                                     *)
(***************************************************************************)
EXTENDS Integers, Sequences, FiniteSets, TLC

(***************************************************************************)
(* Bounds of the model.                                                    *)
(***************************************************************************)
\* Number of files the layers directory holds at most.
MaxFiles == 2

\* Number of manager calls made in one run.
MaxCalls == 3
\* Number of subscribers registered at most.
MaxSubs == 2
\* Number of times the state lock is taken in one run.
MaxLocks == 3
\* Number of Sets made on the state in one run.
MaxWrites == 2
\* Number of revert Changes created in one run.
MaxChanges == 2
\* Number of calls made to the pairing manager and its controller in one run.
MaxPairCalls == 3
\* The time since boot, in seconds, after which the clock is no longer followed.
MaxBoottime == 45
\* Number of refresh Changes with an upload task, and of HTTP upload requests.
MaxUploads == 1
MaxHandlers == 2
\* Number of changes alive at a time, and number of operations on changes,
\* tasks and notices, ticks of the clock included, in one run.
MaxPruneChanges == 2
MaxPruneSteps == 4
\* Number of operations in one run that hands out ids, prunes, saves and reads back.
MaxStoreSteps == 5
\* Number of layers given to one combination of services.
MaxCombineLayers == 2
\* Number of pairing sections given to one CombineSections.
MaxSections == 3
\* Number of names in the Requires, After and Before lists of all services together.
MaxDeps == 3
\* Number of layers that define the health check.
MaxCheckLayers == 2

VARIABLES
    \* ---- plan.Plan (internals/plan/plan.go) ----
    Layers,        \* Plan.Layers: the ordered layer list
    Combined,      \* Plan.Combined: the published combined layer, Nil before any publish
    planOp,        \* the last operation called on the plan
    planErr,       \* its result: "" for nil, else the kind of error
    \* ---- planstate.PlanManager over plan.Plan (mu, handlers) ----
    mu,            \* PlanManager.mu: the thread holding it, 0 when free
    handlers,      \* PlanManager.handlers: the subscribers in registration order
    pc,            \* where each thread is in its call
    op,            \* the manager method each thread is in
    fanout,        \* the subscriber invocations each thread made in its call
    res,           \* what each thread's call did: error, published, plan returned
    calls,         \* number of calls made so far
    hread,         \* the subscriber slice as each thread last read it
    \* ---- state.State (internals/overlord/state/state.go) ----
    stateMu,       \* State.mu: the thread holding it, 0 when free
    muC,           \* State.muC
    modified,      \* State.modified
    backend,       \* State.backend: "nil" or "set"
    data,          \* State.data: the number of Sets it has seen
    pendingChangeByAttr,  \* State.pendingChangeByAttr: the attributes registered
    stPc,          \* where each thread is with the state lock
    since,         \* Unlock: time.Since(start) of each thread, in seconds
    ser,           \* Unlock: the data each thread serialised
    ticket,        \* the position of each thread's last Lock in the order of acquisitions
    acquired,      \* number of times the state lock has been acquired
    needsCheckpoint,  \* what Backend.NeedsCheckpoint answered last
    ckpts,         \* the snapshots Backend.Checkpoint has acknowledged, in order
    seen,          \* what each thread's last Get read
    lastAccess,    \* the thread that last touched the state without holding its lock, 0 if none
    panicked,      \* the message of the panic that ended the process, "" while it runs
    \* ---- state.Task of the revert Changes (internal/overlord/fwstate) ----
    status,        \* Task.status of each task of each Change, "" before the task exists
    waitTasks,     \* Task.waitTasks: pairs <<task, task it waits for>> of each Change
    rollback,      \* what was seen of each Change's rollback: the task whose do failed,
                   \* the tasks Done and not started then, the undo handlers started since
    \* ---- pairingstate.PairingManager and PowerOnController ----
    pmMu,          \* PairingManager.mu: the thread holding it, 0 when free
    planChangedMutex,  \* PairingManager.planChangedMutex: its holder, 0 when free
    ctlMu,         \* PowerOnController.mu: its holder, 0 when free
    windowOpen,    \* PairingManager.windowOpen
    isPaired,      \* PairingManager.isPaired
    pmConfig,      \* PairingManager.config.Mode
    controller,    \* PairingManager.controller: its Type(), "" when nil
    timer,         \* PowerOnController.timer: "nil", "running" or "stopped"
    boottime,      \* osutil.GetLinuxKernelRuntime(), in seconds
    ppc,           \* where each thread is in its call to the pairing manager or controller
    plocal,        \* the arguments, locals and outcome of each thread's call
    inForce,       \* the pairing section of the plan last applied
    pairPanic,     \* the panic that ended the process, "" while it runs
    pairCalls,     \* number of calls made so far
    \* ---- fwstate.FirmwareManager and the daemon's upload handler ----
    uploadMap,     \* FirmwareManager.uploadMap: change id -> the request deposited, 0 if none
    upPc,          \* where the upload task of each change is
    upReq,         \* req of doRefreshUpload: the request the task found, 0 if none
    upErr,         \* err of doRefreshUpload
    upElapsed,     \* time since the task began to wait, in ms
    hPc,           \* where each HTTP upload handler is
    hId,           \* payload.Id of each handler
    hRes,          \* what each handler received on its Done channel
    \* ---- State.Prune ----
    changes,       \* State.changes
    tasks,         \* State.tasks
    notices,       \* State.notices
    latestWarningTime,  \* State.latestWarningTime, 0 for the zero time
    clock,         \* time.Now()
    pruned,        \* whether Prune has been called, with its arguments and the
                   \* changes and tasks it found
    pSteps,        \* number of operations on changes, tasks and notices so far
    \* ---- the ids, the identities and the transient fields of state.State ----
    lastChangeId,  \* State.lastChangeId
    lastTaskId,    \* State.lastTaskId
    lastLaneId,    \* State.lastLaneId
    lastNoticeId,  \* State.lastNoticeId
    lastHandlerId, \* State.lastHandlerId
    identities,    \* State.identities: name -> Identity
    cache,         \* State.cache: the keys it holds
    taskHandlers,  \* State.taskHandlers: the handler ids registered
    changeHandlers,  \* State.changeHandlers: the handler ids registered
    taskIds,       \* the id of the task of each change, and of the task linked to none
    lanes,         \* Task.lanes of each task
    bound,         \* Change.state and Task.state: the State each one points to
    self,          \* the State in use: 1 is the one made by New
    json,          \* the last output of MarshalJSON, Nil if none
    issued,        \* the change, task and lane ids handed out, in order
    saved,         \* the State that MarshalJSON last serialised, as it was then
    envs,          \* the Environment maps in memory, by address (address 0 is the nil map)
    svcLayers,     \* the Services of the layers given to CombineLayers, lowest first
    svcCombined,   \* combined.Services inside CombineLayers
    svcErr,        \* the error CombineLayers returns for svcLayers
    sections,      \* the pairing sections given to CombineSections, lowest first
    combinedSection,  \* what CombineSections returns for them
    depServices,  \* the services of a combined layer: name -> the names it requires, is after, is before
    depErr,  \* what checkCycles returns for them
    chkLayers,  \* the definitions of one health check in the layers given to CombineLayers, lowest first
    chkCombined,  \* the check of the combined plan: as CombineLayers of part_001 and as that of part_005 leave it
    refStatus,  \* the status of the three tasks of each refresh Change ("" before the request)
    refWaitTasks,  \* the wait-for pairs <<task, task it waits for>> of each refresh Change
    changedParts  \* the changed-part list the last operation on the plan returned, handed to the subscribers

planVars == <<Layers, Combined, planOp, planErr>>
mgrVars == <<mu, handlers, pc, op, fanout, res, calls, hread>>
stVars == <<stateMu, muC, modified, backend, data, pendingChangeByAttr, stPc, since,
            ser, ticket, acquired, needsCheckpoint, ckpts, seen, lastAccess, panicked>>
taskVars == <<status, waitTasks, rollback>>
pairVars == <<pmMu, planChangedMutex, ctlMu, windowOpen, isPaired, pmConfig, controller,
              timer, boottime, ppc, plocal, inForce, pairPanic, pairCalls>>
upVars == <<uploadMap, upPc, upReq, upErr, upElapsed, hPc, hId, hRes>>
pruneVars == <<changes, tasks, notices, latestWarningTime, clock, pruned, pSteps>>
storeVars == <<lastChangeId, lastTaskId, lastLaneId, lastNoticeId, lastHandlerId,
               identities, cache, taskHandlers, changeHandlers, taskIds, lanes, bound,
               self, json, issued, saved>>
combVars == <<envs, svcLayers, svcCombined, svcErr>>
secVars == <<sections, combinedSection>>
depVars == <<depServices, depErr>>
chkVars == <<chkLayers, chkCombined>>
refVars == <<refStatus, refWaitTasks>>
pubVars == <<changedParts>>
extraVars == <<secVars, depVars, chkVars, refVars, pubVars>>
extVars == <<pairVars, upVars, pruneVars, storeVars, combVars, extraVars>>
otherVars == <<stVars, taskVars, extVars>>
coreVars == <<planVars, mgrVars, stVars, taskVars>>
nonPairVars == <<coreVars, upVars, pruneVars, storeVars, combVars, extraVars>>
nonUpVars == <<coreVars, pairVars, pruneVars, storeVars, combVars, extraVars>>
nonPruneVars == <<coreVars, pairVars, upVars, storeVars, combVars, extraVars>>
nonStoreVars == <<planVars, mgrVars, taskVars, pairVars, upVars, combVars, extraVars>>
nonCombVars == <<coreVars, pairVars, upVars, pruneVars, storeVars, extraVars>>
baseVars == <<coreVars, pairVars, upVars, pruneVars, storeVars, combVars>>
nonSecVars == <<baseVars, depVars, chkVars, refVars, pubVars>>
nonDepVars == <<baseVars, secVars, chkVars, refVars, pubVars>>
nonChkVars == <<baseVars, secVars, depVars, refVars, pubVars>>
nonRefVars == <<baseVars, secVars, depVars, chkVars, pubVars>>
nonPubVars == <<mgrVars, stVars, taskVars, pairVars, upVars, pruneVars, storeVars, combVars,
               secVars, depVars, chkVars, refVars>>

vars == <<Layers, Combined, planOp, planErr, mu, handlers, pc, op, fanout, res, calls, hread,
          stateMu, muC, modified, backend, data, pendingChangeByAttr, stPc, since,
          ser, ticket, acquired, needsCheckpoint, ckpts, seen, lastAccess, panicked,
          status, waitTasks, rollback,
          pmMu, planChangedMutex, ctlMu, windowOpen, isPaired, pmConfig, controller,
          timer, boottime, ppc, plocal, inForce, pairPanic, pairCalls,
          uploadMap, upPc, upReq, upErr, upElapsed, hPc, hId, hRes,
          changes, tasks, notices, latestWarningTime, clock, pruned, pSteps,
          lastChangeId, lastTaskId, lastLaneId, lastNoticeId, lastHandlerId,
          identities, cache, taskHandlers, changeHandlers, taskIds, lanes, bound,
          self, json, issued, saved, envs, svcLayers, svcCombined, svcErr,
          sections, combinedSection,
          depServices, depErr,
          chkLayers, chkCombined,
          refStatus, refWaitTasks,
          changedParts>>

(***************************************************************************)
(* Data model of a layer.  One part ("services") with one entry name; an   *)
(* entry carries its override and its command ("" = not set).              *)
(***************************************************************************)
\* A nil pointer is the empty sequence, a pointer to v the sequence <<v>>.
Nil == <<>>
Ptr(v) == <<v>>
Deref(p) == p[1]

UnknownOverride == ""
MergeOverride == "merge"
ReplaceOverride == "replace"

\* The layer labels, by rank in file-name order.
Labels == {1, 2}
Names == {"svc"}
Overrides == {UnknownOverride, MergeOverride, ReplaceOverride}
Commands == {"", "c1", "c2"}
EntrySet == [override : Overrides, command : Commands]
\* The entries of a part: a Go map from entry name to entry.
PartsSet == UNION {[S -> EntrySet] : S \in SUBSET Names}

\* Plan.newLayer: a layer holding every registered part, all empty.
newLayer == [n \in {} |-> [override |-> UnknownOverride, command |-> ""]]

\* Service.Copy / LogTarget.Copy: a deep copy is the same value.
Copy(e) == e

\* Service.Merge / LogTarget.Merge: the fields set in other override those of t;
\* Merge leaves t's Override as it is.
Merge(t, other) ==
    [override |-> t.override,
     command  |-> IF other.command # "" THEN other.command ELSE t.command]

\* Part.Combine on one entry name of the other part: the accumulator's entry
\* after combining `entry` into it.
CombineEntry(acc, n, entry) ==
    IF entry.override = MergeOverride /\ n \in DOMAIN acc THEN Merge(Copy(acc[n]), entry)
    ELSE Copy(entry)

\* Part.Combine: combine the part of one layer into the accumulator; an
\* entry without a valid override is a format error.
Combine(acc, parts) ==
    IF \E n \in DOMAIN parts : parts[n].override \notin {MergeOverride, ReplaceOverride}
    THEN [err |-> TRUE, parts |-> acc]
    ELSE [err |-> FALSE,
          parts |-> [n \in DOMAIN acc \cup DOMAIN parts |->
                        IF n \in DOMAIN parts THEN CombineEntry(acc, n, parts[n]) ELSE acc[n]]]

\* Plan.combineLayers: combine the layers in the order given.
RECURSIVE combineFrom(_, _)
combineFrom(acc, layers) ==
    IF layers = <<>> THEN [err |-> FALSE, parts |-> acc]
    ELSE LET next == Combine(acc, Head(layers).parts)
         IN  IF next.err THEN next ELSE combineFrom(next.parts, Tail(layers))

combineLayers(layers) == combineFrom(newLayer, layers)

\* Plan.validate: every part validates the combined layer; a service of the
\* combined plan must define its command.
validate(combined) == \A n \in DOMAIN combined : combined[n].command # ""

(***************************************************************************)
(* The layers directory.  A file NNN-label.yaml is its order, its label    *)
(* and its content; `bad` marks content that ParseLayer rejects.  ReadDir  *)
(* returns the files sorted by name, so by order and then by label.        *)
(***************************************************************************)
\* The directory when the "layers" sub-directory does not exist.
Missing == [exists |-> FALSE, files |-> <<>>]
Orders == {1, 2}
FileParts ==
    {[n \in Names |-> e] : e \in {[override |-> ReplaceOverride, command |-> "c1"],
                                  [override |-> MergeOverride, command |-> "c2"],
                                  [override |-> ReplaceOverride, command |-> ""],
                                  [override |-> UnknownOverride, command |-> "c1"]}}
Files ==
    [order : Orders, label : Labels, parts : FileParts, bad : {FALSE}]
        \cup [order : Orders, label : Labels, parts : {newLayer}, bad : {TRUE}]
NameBefore(f, g) == f.order < g.order \/ (f.order = g.order /\ f.label < g.label)
RECURSIVE FileSeqs(_)
FileSeqs(n) ==
    IF n = 0 THEN {<<>>}
    ELSE LET shorter == FileSeqs(n - 1)
         IN  shorter \cup {Append(s, f) : s \in {x \in shorter : Len(x) = n - 1}, f \in Files}
SortedByName(s) == \A i \in 1..(Len(s) - 1) : NameBefore(s[i], s[i + 1])
DiskStates ==
    {Missing} \cup {[exists |-> TRUE, files |-> s] : s \in {x \in FileSeqs(MaxFiles) : SortedByName(x)}}

\* Plan.ParseLayer: the layer of a file, with the order and label given.
ParseLayer(order, label, file) ==
    IF file.bad THEN [err |-> "format", layer |-> Nil]
    ELSE [err |-> "", layer |-> Ptr([order |-> order, label |-> label, parts |-> file.parts])]

\* Plan.readLayersDir: parse the files in name order; two files may share
\* neither an order nor a label.
RECURSIVE readFrom(_, _)
readFrom(layers, files) ==
    IF files = <<>> THEN [err |-> "", layers |-> layers]
    ELSE LET f == Head(files)
             dupOrder == \E i \in 1..Len(layers) : layers[i].order = f.order
             dupLabel == \E i \in 1..Len(layers) : layers[i].label = f.label
             parsed == ParseLayer(f.order, f.label, f)
         IN  IF dupOrder \/ dupLabel THEN [err |-> "notunique", layers |-> <<>>]
             ELSE IF parsed.err # "" THEN [err |-> parsed.err, layers |-> <<>>]
             ELSE readFrom(Append(layers, Deref(parsed.layer)), Tail(files))

RECURSIVE readFromUnchecked(_, _)
readFromUnchecked(layers, files) ==
    IF files = <<>> THEN [err |-> "", layers |-> layers]
    ELSE LET f == Head(files)
             parsed == ParseLayer(f.order, f.label, f)
         IN  IF parsed.err # "" THEN [err |-> parsed.err, layers |-> <<>>]
             ELSE readFromUnchecked(Append(layers, Deref(parsed.layer)), Tail(files))

readLayersDirUnchecked(files) == readFromUnchecked(<<>>, files)

readLayersDir(files) == readFrom(<<>>, files)

findLayerNone(layers, label) == 0

findLayerFirst(layers, label) == IF Len(layers) > 0 THEN 1 ELSE 0

\* Plan.findLayer: the index of the layer with the label, 0 when there is none
\* (the code's -1).
findLayer(layers, label) ==
    IF \E i \in 1..Len(layers) : layers[i].label = label
    THEN CHOOSE i \in 1..Len(layers) :
            layers[i].label = label /\ \A j \in 1..(i - 1) : layers[j].label # label
    ELSE 0

(***************************************************************************)
(* plan.Plan operations (internals/plan/plan.go).  Each returns the plan   *)
(* after the call and the error kind.                                      *)
(***************************************************************************)
Result(layers, combined, err, pub) ==
    [layers |-> layers, combined |-> combined, err |-> err, pub |-> pub, arg |-> Nil]

\* The result r of a call that was given the layer `layer`, which the caller
\* holds with the order `order` when the call returns.
Returned(r, layer, order) ==
    [r EXCEPT !.arg = Ptr([given |-> layer, now |-> [layer EXCEPT !.order = order]])]

\* Plan.Load of plan.go: validate, then publish.
PlanLoad(layers, combined, disk) ==
    IF ~disk.exists THEN Result(layers, combined, "", FALSE)
    ELSE LET read == readLayersDir(disk.files)
             comb == combineLayers(read.layers)
         IN  IF read.err # "" THEN Result(layers, combined, read.err, FALSE)
             ELSE IF comb.err THEN Result(layers, combined, "format", FALSE)
             ELSE IF ~validate(comb.parts) THEN Result(layers, combined, "invalid", FALSE)
             ELSE Result(read.layers, Ptr(comb.parts), "", TRUE)

\* Plan.Load of the section-extension plan: publish, then validate.
PlanLoadDir(layers, combined, disk) ==
    IF ~disk.exists THEN Result(layers, combined, "", FALSE)
    ELSE LET read == readLayersDir(disk.files)
             comb == combineLayers(read.layers)
         IN  IF read.err # "" THEN Result(layers, combined, read.err, FALSE)
             ELSE IF comb.err THEN Result(layers, combined, "format", FALSE)
             ELSE IF ~validate(comb.parts) THEN Result(read.layers, Ptr(comb.parts), "invalid", TRUE)
             ELSE Result(read.layers, Ptr(comb.parts), "", TRUE)

PlanAppendLayerKeepingOrder(layers, combined, layer) ==
    LET newOrder == layer.order
        newLayers == Append(layers, [layer EXCEPT !.order = newOrder])
        comb == combineLayers(Append(layers, layer))
    IN  IF findLayer(layers, layer.label) > 0
        THEN Returned(Result(layers, combined, "exists", FALSE), layer, layer.order)
        ELSE IF comb.err
        THEN Returned(Result(layers, combined, "format", FALSE), layer, layer.order)
        ELSE IF ~validate(comb.parts)
        THEN Returned(Result(layers, combined, "invalid", FALSE), layer, layer.order)
        ELSE Returned(Result(newLayers, Ptr(comb.parts), "", TRUE), layer, newOrder)

\* Plan.AppendLayer.
PlanAppendLayer(layers, combined, layer) ==
    LET newOrder == IF Len(layers) > 0 THEN layers[Len(layers)].order + 1 ELSE 1
        newLayers == Append(layers, [layer EXCEPT !.order = newOrder])
        comb == combineLayers(Append(layers, layer))
    IN  IF findLayer(layers, layer.label) > 0
        THEN Returned(Result(layers, combined, "exists", FALSE), layer, layer.order)
        ELSE IF comb.err
        THEN Returned(Result(layers, combined, "format", FALSE), layer, layer.order)
        ELSE IF ~validate(comb.parts)
        THEN Returned(Result(layers, combined, "invalid", FALSE), layer, layer.order)
        ELSE Returned(Result(newLayers, Ptr(comb.parts), "", TRUE), layer, newOrder)

PlanUpdateLayerReplacing(layers, combined, layer) ==
    LET index == findLayer(layers, layer.label)
        found == layers[index]
        updated == combineLayers(<<layer>>)
        newLayers == [layers EXCEPT ![index] =
                         [order |-> found.order, label |-> found.label, parts |-> updated.parts]]
        comb == combineLayers(newLayers)
    IN  IF index = 0
        THEN Returned(Result(layers, combined, "missing", FALSE), layer, layer.order)
        ELSE IF updated.err
        THEN Returned(Result(layers, combined, "format", FALSE), layer, layer.order)
        ELSE IF comb.err
        THEN Returned(Result(layers, combined, "format", FALSE), layer, layer.order)
        ELSE IF ~validate(comb.parts)
        THEN Returned(Result(layers, combined, "invalid", FALSE), layer, layer.order)
        ELSE Returned(Result(newLayers, Ptr(comb.parts), "", TRUE), layer, found.order)

\* Plan.UpdateLayer.
PlanUpdateLayer(layers, combined, layer) ==
    LET index == findLayer(layers, layer.label)
        found == layers[index]
        updated == combineLayers(<<found, layer>>)
        newLayers == [layers EXCEPT ![index] =
                         [order |-> found.order, label |-> found.label, parts |-> updated.parts]]
        comb == combineLayers(newLayers)
    IN  IF index = 0
        THEN Returned(Result(layers, combined, "missing", FALSE), layer, layer.order)
        ELSE IF updated.err
        THEN Returned(Result(layers, combined, "format", FALSE), layer, layer.order)
        ELSE IF comb.err
        THEN Returned(Result(layers, combined, "format", FALSE), layer, layer.order)
        ELSE IF ~validate(comb.parts)
        THEN Returned(Result(layers, combined, "invalid", FALSE), layer, layer.order)
        ELSE Returned(Result(newLayers, Ptr(comb.parts), "", TRUE), layer, found.order)

\* The layers a caller may supply, with no order or with one of its own.
LayerArgs == [order : {0, 7}, label : Labels, parts : PartsSet]

PlanInit ==
    /\ Layers = <<>>
    /\ Combined = Nil
    /\ planOp = "new"
    /\ planErr = ""

Threads == {1, 2}
NoRes == [err |-> "", pub |-> FALSE, plan |-> Nil, wb |-> 0, arg |-> Nil]

MgrInit ==
    /\ mu = 0
    /\ handlers = <<>>
    /\ pc = [t \in Threads |-> "idle"]
    /\ op = [t \in Threads |-> "none"]
    /\ fanout = [t \in Threads |-> <<>>]
    /\ res = [t \in Threads |-> NoRes]
    /\ calls = 0
    /\ hread = [t \in Threads |-> <<>>]

Apply(o, r) ==
    /\ Layers' = r.layers
    /\ Combined' = r.combined
    /\ planOp' = o
    /\ planErr' = r.err

Load ==
    /\ \E disk \in DiskStates : Apply("Load", PlanLoad(Layers, Combined, disk))
    /\ UNCHANGED <<mgrVars, otherVars>>

LoadDir ==
    /\ \E disk \in DiskStates : Apply("Load", PlanLoadDir(Layers, Combined, disk))
    /\ UNCHANGED <<mgrVars, otherVars>>

AppendLayer ==
    /\ \E layer \in LayerArgs : Apply("AppendLayer", PlanAppendLayer(Layers, Combined, layer))
    /\ UNCHANGED <<mgrVars, otherVars>>

UpdateLayer ==
    /\ \E layer \in LayerArgs : Apply("UpdateLayer", PlanUpdateLayer(Layers, Combined, layer))
    /\ UNCHANGED <<mgrVars, otherVars>>

\* Plan.Part: the part of the combined plan; p.Combined is dereferenced, so
\* the call panics when there is no combined plan.
Part(combined) == IF combined = Nil THEN "panic" ELSE ""

NoAccess == 0

\* state.New: the state starts modified, with the backend it is given.
New(b) ==
    /\ stateMu = 0
    /\ muC = 0
    /\ modified = TRUE
    /\ backend = b
    /\ data = 0
    /\ pendingChangeByAttr = {}
    /\ stPc = [t \in Threads |-> "idle"]
    /\ since = [t \in Threads |-> 0]
    /\ ser = [t \in Threads |-> 0]
    /\ ticket = [t \in Threads |-> 0]
    /\ acquired = 0
    /\ needsCheckpoint = TRUE
    /\ ckpts = <<>>
    /\ seen = [t \in Threads |-> 0]
    /\ lastAccess = NoAccess
    /\ panicked = ""

Changes == 1..MaxChanges
Kinds == {"bootloader-cfg-change", "boot-state-change"}

NoRollback == [failed |-> "", done |-> {}, pending |-> {}, undo |-> <<>>]

TaskInit ==
    /\ status = [c \in Changes |-> [k \in Kinds |-> ""]]
    /\ waitTasks = [c \in Changes |-> {}]
    /\ rollback = [c \in Changes |-> NoRollback]

modeDisabled == "disabled"
modeSingle == "single"
modeMultiple == "multiple"
Modes == {modeDisabled, modeSingle, modeMultiple}

PowerOnControllerName == "power-on"

\* The pairing section of a combined plan: the mode, the controller type
\* ("" for none) and the duration of the power-on controller's config, in
\* seconds (0 without a controller).
PairingConfigs ==
    [mode : Modes, type : {PowerOnControllerName}, duration : {30, 60}]
        \cup [mode : Modes, type : {""}, duration : {0}]

NoPairingConfig == [mode |-> modeDisabled, type |-> "", duration |-> 0]

NoLocal ==
    [call |-> 0, cfg |-> NoPairingConfig, prev |-> "", curr |-> "",
     wasOpen |-> FALSE, differs |-> FALSE, closed |-> FALSE,
     acc |-> "", err |-> "", ensArg |-> "", ensEnd |-> "", ret |-> "", early |-> FALSE,
     opened |-> FALSE]

\* NewPairingManager: mode disabled, no controller, window closed.
NewPairingManager ==
    /\ pmMu = 0
    /\ planChangedMutex = 0
    /\ ctlMu = 0
    /\ windowOpen = FALSE
    /\ isPaired = FALSE
    /\ pmConfig = modeDisabled
    /\ controller = ""
    /\ timer = "nil"
    /\ boottime = 15
    /\ ppc = [t \in Threads |-> "idle"]
    /\ plocal = [t \in Threads |-> NoLocal]
    /\ inForce = NoPairingConfig
    /\ pairPanic = ""
    /\ pairCalls = 0

(***************************************************************************)
(* State.Prune and the changes, tasks and notices it works on.             *)
(***************************************************************************)

PruneChangeIds == 1..MaxPruneChanges

\* A change has at most one task, which carries the change's id; task 0 is a
\* task linked to no change.
PruneTaskIds == 0..MaxPruneChanges

\* Notice 0 is a warning; notice c is the change-update notice of change c.
NoticeKeys == 0..MaxPruneChanges

NoChange == [live |-> FALSE, spawn |-> 0, ready |-> 0, attr |-> "", pend |-> FALSE]
NoTask == [live |-> FALSE, spawn |-> 0, status |-> ""]
NoNotice == [live |-> FALSE, lastOccurred |-> 0, lastRepeated |-> 0, expireAfter |-> 0]

\* The arguments of Prune.
PruneArgs ==
    [startOfOperation : {1, 3}, pruneWait : {1}, abortWait : {1, 2},
     maxReadyChanges : {0, 1}, maxNotices : {1, 3}]

\* The arguments of the calls in which the number of notices is not limited.
ChangeArgs == {a \in PruneArgs : a.maxNotices = 3}

NoPruned ==
    [done |-> FALSE,
     args |-> [startOfOperation |-> 1, pruneWait |-> 1, abortWait |-> 1,
               maxReadyChanges |-> 0, maxNotices |-> 1],
     changes |-> [c \in PruneChangeIds |-> NoChange],
     tasks |-> [t \in PruneTaskIds |-> NoTask],
     notices |-> [k \in NoticeKeys |-> NoNotice]]

\* The state holds no change, no task and no notice.
PruneInit ==
    /\ changes = [c \in PruneChangeIds |-> NoChange]
    /\ tasks = [t \in PruneTaskIds |-> NoTask]
    /\ notices = [k \in NoticeKeys |-> NoNotice]
    /\ latestWarningTime = 0
    /\ clock = 1
    /\ pruned = NoPruned
    /\ pSteps = 0

IdentityNames == {"bob", "eve"}

\* The ids handed out so far, of each kind in the order they were issued.
NoIssued == [change |-> <<>>, task |-> <<>>, lane |-> <<>>]

\* state.New, continued: no id has been handed out, and the identities, the
\* cache and the handler maps are empty.
StoreInit ==
    /\ lastChangeId = 0
    /\ lastTaskId = 0
    /\ lastLaneId = 0
    /\ lastNoticeId = 0
    /\ lastHandlerId = 0
    /\ identities = [n \in IdentityNames |-> Nil]
    /\ cache = {}
    /\ taskHandlers = {}
    /\ changeHandlers = {}
    /\ taskIds = [t \in PruneTaskIds |-> 0]
    /\ lanes = [t \in PruneTaskIds |-> {}]
    /\ bound = [changes |-> [c \in PruneChangeIds |-> 0], tasks |-> [t \in PruneTaskIds |-> 0]]
    /\ self = 1
    /\ json = Nil
    /\ issued = NoIssued
    /\ saved = Nil

\* A map from service name to service that holds no service.
NoServices == [n \in {} |-> 0]

\* The kinds of the tasks of a refresh, in the order Refresh makes them.
RefreshKinds == {"firmware-refresh-prepare", "firmware-refresh-upload", "firmware-refresh-complete"}

\* No check is defined: neither CombineLayers has a check to look at.
NoCheck == [checked |-> Nil, capped |-> Nil]

\* checkCycles found nothing wrong.
NoCycle == [err |-> "", names |-> {}]

\* CombineSections of no section: no error, the default mode, no controller.
NoSection == [err |-> "", mode |-> "disabled", type |-> "", config |-> Nil]

\* No layer has been given to CombineLayers, and no Environment map exists;
\* no pairing section has been given to CombineSections.
ServicesInit ==
    /\ envs = <<>>
    /\ svcLayers = <<>>
    /\ svcCombined = NoServices
    /\ svcErr = ""
    /\ sections = <<>>
    /\ combinedSection = NoSection
    /\ changedParts = <<>>
    /\ refStatus = [c \in Changes |-> [k \in RefreshKinds |-> ""]]
    /\ refWaitTasks = [c \in Changes |-> {}]
    /\ chkLayers = <<>>
    /\ chkCombined = NoCheck
    /\ depServices = NoServices
    /\ depErr = NoCycle

UpChanges == 1..MaxUploads
UpHandlers == 1..MaxHandlers

\* NewFirmwareManager: an empty upload map; no upload task and no HTTP
\* handler has started.
NewFirmwareManager ==
    /\ uploadMap = [c \in UpChanges |-> 0]
    /\ upPc = [c \in UpChanges |-> "Do"]
    /\ upReq = [c \in UpChanges |-> 0]
    /\ upErr = [c \in UpChanges |-> ""]
    /\ upElapsed = [c \in UpChanges |-> 0]
    /\ hPc = [h \in UpHandlers |-> "idle"]
    /\ hId = [h \in UpHandlers |-> 0]
    /\ hRes = [h \in UpHandlers |-> "none"]

Init ==
    /\ PlanInit /\ MgrInit /\ New("set") /\ TaskInit /\ NewPairingManager
    /\ NewFirmwareManager /\ PruneInit /\ StoreInit /\ ServicesInit

Next == Load \/ AppendLayer \/ UpdateLayer

Spec == Init /\ [][Next]_vars

\* The plan with sections built in (its Load takes the directory).
NextDir == LoadDir

SpecPlanDir == Init /\ [][NextDir]_vars

(***************************************************************************)
(* planstate.PlanManager over plan.Plan: every method takes mu, works on   *)
(* the plan, and releases mu when it returns.  A call is the steps         *)
(*   idle -> lock -> body -> (notify ->) unlock -> idle.                   *)
(***************************************************************************)
MgrOps == {"NotifyPlanChanged", "Load", "AppendLayer", "UpdateLayer", "Plan", "StartUp"}

\* The layers and directories the manager's callers supply.
MgrLayerArgs ==
    {l \in LayerArgs :
        /\ l.parts \in FileParts \cup {newLayer}
        /\ l.order = IF l.label = 1 THEN 0 ELSE 7}
MgrDisks ==
    {d \in DiskStates : Len(d.files) <= 1}

\* A thread calls a method of the manager.
MgrCall(t) ==
    /\ pc[t] = "idle"
    /\ calls < MaxCalls
    /\ \E o \in MgrOps :
          /\ o = "NotifyPlanChanged" => Len(handlers) < MaxSubs
          /\ op' = [op EXCEPT ![t] = o]
    /\ pc' = [pc EXCEPT ![t] = "lock"]
    /\ fanout' = [fanout EXCEPT ![t] = <<>>]
    /\ res' = [res EXCEPT ![t] = NoRes]
    /\ calls' = calls + 1
    /\ UNCHANGED <<planVars, mu, handlers, hread, otherVars>>

\* sync.Mutex.Lock on PlanManager.mu: blocks while any thread holds it, the
\* caller itself included.  StartUp's call of Load locks a second time.
MuLock(t) ==
    /\ pc[t] \in {"lock", "lock2"}
    /\ mu = 0
    /\ mu' = t
    /\ pc' = [pc EXCEPT ![t] = IF pc[t] = "lock" THEN "body" ELSE "body2"]
    /\ UNCHANGED <<planVars, handlers, op, fanout, res, calls, otherVars, hread>>

\* sync.Mutex.Unlock, deferred: the method returns.  The Load that StartUp
\* called returns into StartUp, which goes on to notify.
MuUnlock(t) ==
    /\ pc[t] \in {"unlock", "unlock2"}
    /\ mu' = 0
    /\ pc' = [pc EXCEPT ![t] =
                 IF pc[t] = "unlock" THEN "idle"
                 ELSE IF res[t].err = "" THEN "notify" ELSE "unlock"]
    /\ UNCHANGED <<planVars, handlers, op, fanout, res, calls, otherVars, hread>>

\* PlanManager.NotifyPlanChanged.
NotifyPlanChanged(t) ==
    /\ pc[t] = "body" /\ op[t] = "NotifyPlanChanged"
    /\ handlers' = Append(handlers, Len(handlers) + 1)
    /\ pc' = [pc EXCEPT ![t] = "unlock"]
    /\ UNCHANGED <<planVars, mu, op, fanout, res, calls, otherVars, hread>>

\* The plan call of a manager method, and where the method goes next:
\* to notify when the method notifies and the call succeeded, else to return.
MgrApply(t, o, r, notifies, unlock) ==
    /\ Apply(o, r)
    /\ res' = [res EXCEPT ![t] = [err |-> r.err, pub |-> r.pub, plan |-> Nil, wb |-> 0,
                                   arg |-> r.arg]]
    /\ pc' = [pc EXCEPT ![t] = IF notifies /\ r.err = "" THEN "notify" ELSE unlock]
    /\ UNCHANGED <<mu, handlers, op, fanout, calls, otherVars, hread>>

\* PlanManager.Load: the plan's Load, no notification.
MgrLoad(t) ==
    /\ \/ pc[t] = "body" /\ op[t] = "Load"
       \/ pc[t] = "body2"
    /\ \E disk \in MgrDisks :
          MgrApply(t, "Load", PlanLoad(Layers, Combined, disk), FALSE,
                   IF pc[t] = "body" THEN "unlock" ELSE "unlock2")

\* PlanManager.AppendLayer: the plan's AppendLayer, then notify.
MgrAppendLayer(t) ==
    /\ pc[t] = "body" /\ op[t] = "AppendLayer"
    /\ \E layer \in MgrLayerArgs :
          MgrApply(t, "AppendLayer", PlanAppendLayer(Layers, Combined, layer), TRUE, "unlock")

\* PlanManager.UpdateLayer: the plan's UpdateLayer, then notify.
MgrUpdateLayer(t) ==
    /\ pc[t] = "body" /\ op[t] = "UpdateLayer"
    /\ \E layer \in MgrLayerArgs :
          MgrApply(t, "UpdateLayer", PlanUpdateLayer(Layers, Combined, layer), TRUE, "unlock")

\* PlanManager.Plan: return the plan's combined layer.
MgrPlan(t) ==
    /\ pc[t] = "body" /\ op[t] = "Plan"
    /\ res' = [res EXCEPT ![t] = [err |-> "", pub |-> FALSE, plan |-> Combined, wb |-> 0,
                                   arg |-> Nil]]
    /\ pc' = [pc EXCEPT ![t] = "unlock"]
    /\ UNCHANGED <<planVars, mu, handlers, op, fanout, calls, otherVars, hread>>

\* PlanManager.StartUp: with mu held, call m.Load(), which locks mu itself.
MgrStartUp(t) ==
    /\ pc[t] = "body" /\ op[t] = "StartUp"
    /\ pc' = [pc EXCEPT ![t] = "lock2"]
    /\ UNCHANGED <<planVars, mu, handlers, op, fanout, res, calls, otherVars, hread>>

\* PlanManager.notify: one turn of the loop over m.handlers, calling the
\* next subscriber with m.plan.
notify(t) ==
    /\ pc[t] = "notify"
    /\ IF Len(fanout[t]) < Len(handlers)
       THEN /\ fanout' = [fanout EXCEPT ![t] =
                    Append(@, [sub |-> handlers[Len(fanout[t]) + 1], plan |-> Combined])]
            /\ pc' = pc
       ELSE /\ fanout' = fanout
            /\ pc' = [pc EXCEPT ![t] = "unlock"]
    /\ UNCHANGED <<planVars, mu, handlers, op, res, calls, otherVars, hread>>

MgrStep(t) ==
    \/ MuLock(t) \/ MuUnlock(t) \/ NotifyPlanChanged(t) \/ MgrLoad(t)
    \/ MgrAppendLayer(t) \/ MgrUpdateLayer(t) \/ MgrPlan(t) \/ MgrStartUp(t) \/ notify(t)

NextFacetMgr == \E t \in Threads : MgrCall(t) \/ MgrStep(t)

SpecFacetMgr == Init /\ [][NextFacetMgr]_vars

(***************************************************************************)
(* planstate.PlanManager with planLock, plan and planHandlers.  m.plan is  *)
(* nil until the first load; the variables are those of the manager above: *)
(* mu is planLock, handlers is planHandlers, Layers and Combined are the   *)
(* fields of m.plan (Combined = Nil when m.plan is nil).                   *)
(***************************************************************************)
LockedOps == {"Plan", "AppendLayer", "CombineLayer", "StartUp"}

\* plan.CombineLayers of the package: combine, then check the combined
\* fields (a service must define its command).
CombineLayers(layers) ==
    LET comb == combineLayers(layers)
    IN  IF comb.err THEN [err |-> "format", parts |-> comb.parts]
        ELSE IF ~validate(comb.parts) THEN [err |-> "invalid", parts |-> comb.parts]
        ELSE [err |-> "", parts |-> comb.parts]

\* plan.ReadDir: read the layers directory and combine it into a new plan;
\* a directory without a layers sub-directory gives an empty plan.
ReadDir(disk) ==
    LET read == readLayersDir(disk.files)
        comb == CombineLayers(read.layers)
    IN  IF read.err # "" THEN Result(<<>>, Nil, read.err, FALSE)
        ELSE IF comb.err # "" THEN Result(<<>>, Nil, comb.err, FALSE)
        ELSE Result(read.layers, Ptr(comb.parts), "", TRUE)

\* A thread calls a method; NotifyPlanChanged takes no lock.
PmCall(t) ==
    /\ pc[t] = "idle"
    /\ calls < MaxCalls
    /\ \E o \in LockedOps \cup {"NotifyPlanChanged"} :
          /\ o = "NotifyPlanChanged" => Len(handlers) < MaxSubs
          /\ op' = [op EXCEPT ![t] = o]
          /\ pc' = [pc EXCEPT ![t] = IF o = "NotifyPlanChanged" THEN "read" ELSE "lock"]
    /\ fanout' = [fanout EXCEPT ![t] = <<>>]
    /\ res' = [res EXCEPT ![t] = NoRes]
    /\ calls' = calls + 1
    /\ UNCHANGED <<planVars, mu, handlers, hread, otherVars>>

\* PlanManager.NotifyPlanChanged, first half of the unlocked append: read
\* the slice m.planHandlers.
PmReadHandlers(t) ==
    /\ pc[t] = "read"
    /\ hread' = [hread EXCEPT ![t] = handlers]
    /\ pc' = [pc EXCEPT ![t] = "write"]
    /\ UNCHANGED <<planVars, mu, handlers, op, fanout, res, calls, otherVars>>

\* PlanManager.NotifyPlanChanged, second half: store the slice read with f
\* appended (thread t registers subscriber t).
PmNotifyPlanChanged(t) ==
    /\ pc[t] = "write"
    /\ handlers' = Append(hread[t], t)
    /\ pc' = [pc EXCEPT ![t] = "idle"]
    /\ UNCHANGED <<planVars, mu, op, fanout, res, calls, otherVars, hread>>

\* m.planLock.Lock().
PmLock(t) ==
    /\ pc[t] = "lock"
    /\ mu = 0
    /\ mu' = t
    /\ pc' = [pc EXCEPT ![t] = IF op[t] = "StartUp" THEN "reload" ELSE "acquire"]
    /\ UNCHANGED <<planVars, handlers, op, fanout, res, calls, otherVars, hread>>

\* PlanManager.updatePlan, up to the start of its loop: store the plan and
\* evaluate the range expression m.planHandlers.
updatePlan(t, o, r, wb, notifyPc) ==
    /\ Apply(o, r)
    /\ res' = [res EXCEPT ![t] = [err |-> "", pub |-> TRUE, plan |-> Nil, wb |-> wb,
                                   arg |-> Nil]]
    /\ hread' = [hread EXCEPT ![t] = handlers]
    /\ fanout' = [fanout EXCEPT ![t] = <<>>]
    /\ pc' = [pc EXCEPT ![t] = notifyPc]
    /\ UNCHANGED <<mu, handlers, op, calls, otherVars>>

\* A method returns an error: the plan stays, and the lock is released on
\* the way out (at once in acquirePlan, by the deferred release elsewhere).
PmFail(t, o, err, releaseNow) ==
    /\ planOp' = o
    /\ planErr' = err
    /\ res' = [res EXCEPT ![t] = [err |-> err, pub |-> FALSE, plan |-> Nil, wb |-> 0,
                                   arg |-> Nil]]
    /\ mu' = IF releaseNow THEN 0 ELSE mu
    /\ pc' = [pc EXCEPT ![t] = IF releaseNow THEN "idle" ELSE "unlock"]
    /\ UNCHANGED <<Layers, Combined, handlers, op, fanout, calls, otherVars, hread>>

\* PlanManager.reloadPlan.
reloadPlan(t, releaseNow, notifyPc) ==
    \E disk \in MgrDisks :
        LET r == ReadDir(disk)
        IN  IF r.err # "" THEN PmFail(t, "Load", r.err, releaseNow)
            ELSE updatePlan(t, "Load", r, 0, notifyPc)

\* PlanManager.acquirePlan, with planLock taken: load the plan if there is none.
acquirePlan(t) ==
    /\ pc[t] = "acquire"
    /\ IF Combined = Nil
       THEN reloadPlan(t, TRUE, "notify1")
       ELSE /\ pc' = [pc EXCEPT ![t] = "body"]
            /\ UNCHANGED <<planVars, mu, handlers, op, fanout, res, calls, otherVars, hread>>

\* PlanManager.StartUp, with planLock taken.
PmStartUp(t) ==
    /\ pc[t] = "reload"
    /\ reloadPlan(t, FALSE, "notify")

\* PlanManager.Plan, after acquirePlan.
PmPlan(t) ==
    /\ pc[t] = "body" /\ op[t] = "Plan"
    /\ res' = [res EXCEPT ![t] = [err |-> "", pub |-> FALSE, plan |-> Combined, wb |-> 0,
                                   arg |-> Nil]]
    /\ pc' = [pc EXCEPT ![t] = "unlock"]
    /\ UNCHANGED <<planVars, mu, handlers, op, fanout, calls, otherVars, hread>>

\* PlanManager.updatePlanLayers.
updatePlanLayers(t, o, layers, wb) ==
    LET comb == CombineLayers(layers)
    IN  IF comb.err # "" THEN PmFail(t, o, comb.err, FALSE)
        ELSE updatePlan(t, o, Result(layers, Ptr(comb.parts), "", TRUE), wb, "notify")

\* PlanManager.appendLayer: the layer enters the list as supplied; its Order
\* is set once updatePlanLayers has returned.
appendLayer(t, o, layer) ==
    LET newOrder == IF Len(Layers) > 0 THEN Layers[Len(Layers)].order + 1 ELSE 1
    IN  updatePlanLayers(t, o, Append(Layers, layer), newOrder)

\* PlanManager.AppendLayer, after acquirePlan.
PmAppendLayer(t) ==
    /\ pc[t] = "body" /\ op[t] = "AppendLayer"
    /\ \E layer \in MgrLayerArgs :
          IF findLayer(Layers, layer.label) > 0
          THEN PmFail(t, "AppendLayer", "exists", FALSE)
          ELSE appendLayer(t, "AppendLayer", layer)

\* PlanManager.CombineLayer, after acquirePlan.
PmCombineLayer(t) ==
    /\ pc[t] = "body" /\ op[t] = "CombineLayer"
    /\ \E layer \in MgrLayerArgs :
          LET index == findLayer(Layers, layer.label)
              found == Layers[index]
              combined == CombineLayers(<<found, layer>>)
              newLayers == [Layers EXCEPT ![index] =
                               [order |-> found.order, label |-> found.label,
                                parts |-> combined.parts]]
          IN  IF index = 0 THEN appendLayer(t, "CombineLayer", layer)
              ELSE IF combined.err # "" THEN PmFail(t, "CombineLayer", combined.err, FALSE)
              ELSE updatePlanLayers(t, "CombineLayer", newLayers, 0)

\* PlanManager.updatePlan, one turn of the loop over the slice read when the
\* loop began; when the loop ends the caller goes on (appendLayer sets the
\* appended layer's Order).
PmNotify(t) ==
    /\ pc[t] \in {"notify1", "notify"}
    /\ IF Len(fanout[t]) < Len(hread[t])
       THEN /\ fanout' = [fanout EXCEPT ![t] =
                    Append(@, [sub |-> hread[t][Len(fanout[t]) + 1], plan |-> Combined])]
            /\ UNCHANGED <<pc, res, Layers>>
       ELSE /\ pc' = [pc EXCEPT ![t] = IF pc[t] = "notify1" THEN "body" ELSE "unlock"]
            /\ Layers' = IF res[t].wb > 0
                          THEN [Layers EXCEPT ![Len(Layers)].order = res[t].wb]
                          ELSE Layers
            /\ res' = [res EXCEPT ![t].wb = 0]
            /\ fanout' = fanout
    /\ UNCHANGED <<Combined, planOp, planErr, mu, handlers, op, calls, otherVars, hread>>

\* The deferred release of planLock.
PmUnlock(t) ==
    /\ pc[t] = "unlock"
    /\ mu' = 0
    /\ pc' = [pc EXCEPT ![t] = "idle"]
    /\ UNCHANGED <<planVars, handlers, op, fanout, res, calls, otherVars, hread>>

NextPlanMgr ==
    \E t \in Threads :
        \/ PmCall(t) \/ PmReadHandlers(t) \/ PmNotifyPlanChanged(t) \/ PmLock(t)
        \/ acquirePlan(t) \/ PmStartUp(t) \/ PmPlan(t) \/ PmAppendLayer(t)
        \/ PmCombineLayer(t) \/ PmNotify(t) \/ PmUnlock(t)

SpecPlanMgr == Init /\ [][NextPlanMgr]_vars

(***************************************************************************)
(* state.State: the lock, the lock check of reads and writes, and Unlock   *)
(* with its checkpoint and retries.  Time is in seconds.                   *)
(***************************************************************************)
unlockCheckpointRetryMaxTime == 300
unlockCheckpointRetryInterval == 3

AccessPanic == "internal error: accessing state without lock"
CheckpointPanic == "cannot checkpoint even after retries"

\* A thread calls State.Lock and waits for the mutex.
CallLock(t) ==
    /\ panicked = ""
    /\ stPc[t] = "idle"
    /\ acquired + Cardinality({u \in Threads : stPc[u] = "waiting"}) < MaxLocks
    /\ stPc' = [stPc EXCEPT ![t] = "waiting"]
    /\ UNCHANGED <<stateMu, muC, modified, backend, data, pendingChangeByAttr, since, ser,
                   ticket, acquired, needsCheckpoint, ckpts, seen, lastAccess, panicked>>
    /\ UNCHANGED <<planVars, mgrVars, taskVars, extVars>>

\* State.Lock: s.mu.Lock(), then muC goes up by one.
Lock(t) ==
    /\ panicked = ""
    /\ stPc[t] = "waiting"
    /\ stateMu = 0
    /\ stateMu' = t
    /\ muC' = muC + 1
    /\ acquired' = acquired + 1
    /\ ticket' = [ticket EXCEPT ![t] = acquired + 1]
    /\ stPc' = [stPc EXCEPT ![t] = "locked"]
    /\ UNCHANGED <<modified, backend, data, pendingChangeByAttr, since, ser,
                   needsCheckpoint, ckpts, seen, lastAccess, panicked>>
    /\ UNCHANGED <<planVars, mgrVars, taskVars, extVars>>

\* State.reading and the check of State.writing: the panic they raise, ""
\* when they return.
reading == IF muC # 1 THEN AccessPanic ELSE ""

\* State.unlock: muC goes down by one, then s.mu.Unlock().
unlock ==
    /\ muC' = muC - 1
    /\ stateMu' = 0

\* Unlock is over for thread t: its locals go out of scope.
Leave(t, to) ==
    /\ stPc' = [stPc EXCEPT ![t] = to]
    /\ ser' = [ser EXCEPT ![t] = 0]
    /\ since' = [since EXCEPT ![t] = 0]
    /\ ticket' = [ticket EXCEPT ![t] = 0]
    /\ seen' = [seen EXCEPT ![t] = 0]

\* State.Get by thread t.
Get(t) ==
    /\ panicked = ""
    /\ lastAccess' = IF stateMu = t THEN lastAccess ELSE t
    /\ panicked' = reading
    /\ seen' = IF reading = "" THEN [seen EXCEPT ![t] = data] ELSE seen
    /\ UNCHANGED <<stateMu, muC, modified, backend, data, pendingChangeByAttr, stPc, since,
                   ser, ticket, acquired, needsCheckpoint, ckpts>>
    /\ UNCHANGED <<planVars, mgrVars, taskVars, extVars>>

\* State.Set by thread t: writing sets modified before it checks the lock.
Set(t) ==
    /\ panicked = ""
    /\ data < MaxWrites
    /\ lastAccess' = IF stateMu = t THEN lastAccess ELSE t
    /\ modified' = TRUE
    /\ panicked' = reading
    /\ data' = IF reading = "" THEN data + 1 ELSE data
    /\ UNCHANGED <<stateMu, muC, backend, pendingChangeByAttr, stPc, since,
                   ser, ticket, acquired, needsCheckpoint, ckpts, seen>>
    /\ UNCHANGED <<planVars, mgrVars, taskVars, extVars>>

Attrs == {"attr"}

\* State.RegisterPendingChangeByAttr by thread t: it checks nothing.
RegisterPendingChangeByAttr(t) ==
    /\ panicked = ""
    /\ \E attr \in Attrs : pendingChangeByAttr' = pendingChangeByAttr \cup {attr}
    /\ lastAccess' = IF stateMu = t THEN lastAccess ELSE t
    /\ UNCHANGED <<stateMu, muC, modified, backend, data, stPc, since,
                   ser, ticket, acquired, needsCheckpoint, ckpts, seen, panicked>>
    /\ UNCHANGED <<planVars, mgrVars, taskVars, extVars>>

\* An Unlock that releases the lock as soon as it has serialised the state.
UnlockReleasingEarly(t) ==
    /\ panicked = ""
    /\ stPc[t] = "locked"
    /\ modified /\ backend = "set"
    /\ needsCheckpoint' = TRUE
    /\ ser' = [ser EXCEPT ![t] = data]
    /\ since' = [since EXCEPT ![t] = 0]
    /\ stPc' = [stPc EXCEPT ![t] = "checkpoint"]
    /\ unlock
    /\ UNCHANGED <<modified, ticket, seen, backend, data, pendingChangeByAttr, acquired,
                   ckpts, lastAccess, panicked>>
    /\ UNCHANGED <<planVars, mgrVars, taskVars, extVars>>

\* State.Unlock up to its loop: it returns at once when the state is not
\* modified, there is no backend, or the backend needs no checkpoint; else
\* it serialises the state and notes the time.
Unlock(t) ==
    /\ panicked = ""
    /\ stPc[t] = "locked"
    /\ IF ~modified \/ backend = "nil"
       THEN /\ unlock
            /\ Leave(t, "idle")
            /\ UNCHANGED <<modified, needsCheckpoint>>
       ELSE \E needs \in BOOLEAN :
              /\ needsCheckpoint' = needs
              /\ IF ~needs
                 THEN /\ modified' = FALSE
                      /\ unlock
                      /\ Leave(t, "idle")
                 ELSE /\ ser' = [ser EXCEPT ![t] = data]
                      /\ since' = [since EXCEPT ![t] = 0]
                      /\ stPc' = [stPc EXCEPT ![t] = "checkpoint"]
                      /\ UNCHANGED <<modified, stateMu, muC, ticket, seen>>
    /\ UNCHANGED <<backend, data, pendingChangeByAttr, acquired, ckpts,
                   lastAccess, panicked>>
    /\ UNCHANGED <<planVars, mgrVars, taskVars, extVars>>

\* An Unlock that gives up at the first Checkpoint: it clears modified and
\* returns whether or not the backend acknowledged the data.
UnlockGivingUp(t) ==
    /\ panicked = ""
    /\ stPc[t] = "checkpoint"
    /\ \E ok \in BOOLEAN :
          ckpts' = IF ok THEN Append(ckpts, [ticket |-> ticket[t], data |-> ser[t]])
                   ELSE ckpts
    /\ modified' = FALSE
    /\ unlock
    /\ Leave(t, "idle")
    /\ UNCHANGED <<backend, data, pendingChangeByAttr, acquired, needsCheckpoint,
                   lastAccess, panicked>>
    /\ UNCHANGED <<planVars, mgrVars, taskVars, extVars>>

\* State.Unlock, one turn of its loop: while the time is not up, call
\* Backend.Checkpoint; if it is acknowledged clear modified and return, else
\* sleep for the retry interval.  When the time is up, panic; the deferred
\* unlock releases the lock.
UnlockRetry(t) ==
    /\ panicked = ""
    /\ stPc[t] = "checkpoint"
    /\ IF since[t] <= unlockCheckpointRetryMaxTime
       THEN \E ok \in BOOLEAN :
              IF ok
              THEN /\ ckpts' = Append(ckpts, [ticket |-> ticket[t], data |-> ser[t]])
                   /\ modified' = FALSE
                   /\ unlock
                   /\ Leave(t, "idle")
                   /\ UNCHANGED panicked
              ELSE /\ since' = [since EXCEPT ![t] = @ + unlockCheckpointRetryInterval]
                   /\ UNCHANGED <<ckpts, modified, stateMu, muC, stPc, panicked, ser,
                                  ticket, seen>>
       ELSE /\ panicked' = CheckpointPanic
            /\ unlock
            /\ Leave(t, "panicked")
            /\ UNCHANGED <<ckpts, modified>>
    /\ UNCHANGED <<backend, data, pendingChangeByAttr, acquired,
                   needsCheckpoint, lastAccess>>
    /\ UNCHANGED <<planVars, mgrVars, taskVars, extVars>>

InitState ==
    /\ PlanInit /\ MgrInit /\ (\E b \in {"nil", "set"} : New(b)) /\ TaskInit
    /\ NewPairingManager /\ NewFirmwareManager /\ PruneInit /\ StoreInit /\ ServicesInit

\* Threads that touch the state only between Lock and Unlock.
NextState ==
    \E t \in Threads :
        \/ CallLock(t) \/ Lock(t)
        \/ (stPc[t] = "locked" /\ Get(t))
        \/ (stPc[t] = "locked" /\ Set(t))
        \/ (stPc[t] = "locked" /\ RegisterPendingChangeByAttr(t))
        \/ Unlock(t) \/ UnlockRetry(t)

SpecState == InitState /\ [][NextState]_vars

\* Threads that also touch the state when they do not hold the lock.
NextStateAccess ==
    \E t \in Threads :
        \/ CallLock(t) \/ Lock(t)
        \/ (stPc[t] \in {"idle", "locked"} /\ Get(t))
        \/ (stPc[t] \in {"idle", "locked"} /\ Set(t))
        \/ (stPc[t] \in {"idle", "locked"} /\ RegisterPendingChangeByAttr(t))
        \/ Unlock(t) \/ UnlockRetry(t)

SpecStateAccess == InitState /\ [][NextStateAccess]_vars

(***************************************************************************)
(* The tasks of a revert Change and the task runner that runs them.        *)
(***************************************************************************)
\* A revert that declares no wait-for edge between its two tasks.
doRevertUnordered ==
    [tasks |-> Kinds, waitTasks |-> {}]

\* fwstate.doRevert: the two tasks, boot-state-change waiting for
\* bootloader-cfg-change.
doRevert ==
    [tasks |-> Kinds, waitTasks |-> {<<"boot-state-change", "bootloader-cfg-change">>}]

\* A revert is requested: its tasks enter Change c with status Do.
Revert(c) ==
    /\ \A k \in Kinds : status[c][k] = ""
    /\ status' = [status EXCEPT ![c] = [k \in Kinds |-> IF k \in doRevert.tasks THEN "Do" ELSE ""]]
    /\ waitTasks' = [waitTasks EXCEPT ![c] = doRevert.waitTasks]
    /\ UNCHANGED <<rollback, planVars, mgrVars, stVars, extVars>>

\* fwstate.Manager registers a do and an undo handler for these kinds.
Handled == {"bootloader-cfg-change", "boot-state-change"}

\* The tasks task k of Change c waits for, and the tasks that wait for it.
WaitsFor(c, k) == {w \in Kinds : <<k, w>> \in waitTasks[c]}
HaltsFor(c, k) == {h \in Kinds : <<h, k>> \in waitTasks[c]}

\* The lane of Change c is aborting once one of its tasks has failed.
Aborting(c) == \E k \in Kinds : status[c][k] = "Error"

\* TaskRunner.Ensure starts the do handler of an eligible task: its status
\* is Do, all the tasks it waits for are Done, and its lane is not aborting.
EnsureDo(c, k) ==
    /\ status[c][k] = "Do"
    /\ k \in Handled
    /\ \A w \in WaitsFor(c, k) : status[c][w] = "Done"
    /\ ~Aborting(c)
    /\ status' = [status EXCEPT ![c][k] = "Doing"]
    /\ UNCHANGED <<waitTasks, rollback, planVars, mgrVars, stVars, extVars>>

\* The do handler of a task returns: nil makes the task Done; an error makes
\* it Error and aborts its lane, whose tasks not yet started become Abort
\* and whose Done tasks are scheduled for undo.
DoReturns(c, k) ==
    /\ status[c][k] = "Doing"
    /\ \E ok \in BOOLEAN :
          /\ status' = [status EXCEPT ![c] =
                        [j \in Kinds |->
                            IF ok THEN (IF j = k THEN "Done" ELSE status[c][j])
                            ELSE IF j = k THEN "Error"
                            ELSE IF status[c][j] = "Do" THEN "Abort"
                            ELSE IF status[c][j] = "Done" THEN "Undo"
                            ELSE status[c][j]]]
          /\ rollback' = IF ok \/ rollback[c].failed # "" THEN rollback
                         ELSE [rollback EXCEPT ![c] =
                                  [failed |-> k,
                                   done |-> {j \in Kinds : status[c][j] = "Done"},
                                   pending |-> {j \in Kinds : status[c][j] = "Do"},
                                   undo |-> <<>>]]
    /\ UNCHANGED <<waitTasks, planVars, mgrVars, stVars, extVars>>

\* A manager that registers no undo handler.
UndoHandledNone == {}

\* fwstate.Manager registers an undo handler for these kinds.
UndoHandled == {"bootloader-cfg-change", "boot-state-change"}

\* TaskRunner.Ensure starts the undo handler of a task scheduled for undo
\* once no task that waits for it is still to be undone; a task without an
\* undo handler is put on Hold.
EnsureUndo(c, k) ==
    /\ status[c][k] = "Undo"
    /\ \A h \in HaltsFor(c, k) : status[c][h] \notin {"Doing", "Done", "Undo", "Undoing"}
    /\ IF k \in UndoHandled
       THEN /\ status' = [status EXCEPT ![c][k] = "Undoing"]
            /\ rollback' = [rollback EXCEPT ![c].undo = Append(@, k)]
       ELSE /\ status' = [status EXCEPT ![c][k] = "Hold"]
            /\ UNCHANGED rollback
    /\ UNCHANGED <<waitTasks, planVars, mgrVars, stVars, extVars>>

\* The undo handler of a task returns: nil makes the task Undone, an error
\* makes it Error.
UndoReturns(c, k) ==
    /\ status[c][k] = "Undoing"
    /\ \E ok \in BOOLEAN :
          status' = [status EXCEPT ![c][k] = IF ok THEN "Undone" ELSE "Error"]
    /\ UNCHANGED <<waitTasks, rollback, planVars, mgrVars, stVars, extVars>>

NextTasks ==
    \E c \in Changes :
        \/ Revert(c)
        \/ \E k \in Kinds :
              EnsureDo(c, k) \/ DoReturns(c, k) \/ EnsureUndo(c, k) \/ UndoReturns(c, k)

SpecTasks == Init /\ [][NextTasks]_vars

(***************************************************************************)
(* The pairing manager (pairingstate.PairingManager) and the power-on      *)
(* controller (pairingstate.PowerOnController).                             *)
(***************************************************************************)

\* powerOnBootExpiry, in seconds.
powerOnBootExpiry == 30

\* PowerOnController.config: the field is declared and read, and no statement
\* of the package assigns it; it holds the nil pointer for the controller's
\* whole life.
PowerOnConfig == Nil

\* PowerOnController.Config.
Config == PowerOnConfig

\* PowerOnControllerConfig.Equal: the argument is asserted to be a
\* *PowerOnControllerConfig and its Duration is read, which panics on the nil
\* pointer.
Equal(c, other) ==
    IF other = Nil THEN "panic"
    ELSE IF c # Deref(other) THEN "false" ELSE "true"

\* PairingManager.configChanged: every comparison that finds a difference
\* returns false, and true is returned when nothing differs.
configChanged(c) ==
    IF pmConfig # c.mode THEN "false"
    ELSE IF controller # c.type THEN "false"
    ELSE LET e == Equal(c.duration, Config)
         IN  IF e = "panic" THEN "panic"
             ELSE IF e = "false" THEN "false" ELSE "true"

\* The error of PairingManager.EnablePairing, "" when it opens the window.
EnableErrIgnoringMode(open, mode, paired) ==
    IF open THEN "already enabled" ELSE ""

EnableErr(open, mode, paired) ==
    IF open THEN "already enabled"
    ELSE IF mode = modeDisabled THEN "pairing not allowed"
    ELSE IF mode = modeSingle
         THEN IF paired THEN "already paired" ELSE ""
    ELSE IF mode = modeMultiple THEN ""
    ELSE "unknown pairing mode"

\* The error of PairingManager.DisablePairing, "" when it closes the window.
DisableErr(open) == IF open THEN "" ELSE "already disabled"

PairRunning(t) ==
    /\ pairPanic = ""
    /\ ppc[t] # "panicked"

PairCall(t) ==
    /\ PairRunning(t)
    /\ ppc[t] = "idle"
    /\ pairCalls < MaxPairCalls
    /\ pairCalls' = pairCalls + 1

\* A nil pointer is dereferenced: the goroutine unwinds, its deferred unlocks
\* run, and the process ends.
PairPanics(t) ==
    /\ pairPanic' = "nil pointer dereference"
    /\ ppc' = [ppc EXCEPT ![t] = "panicked"]
    /\ pmMu' = IF pmMu = t THEN 0 ELSE pmMu
    /\ ctlMu' = IF ctlMu = t THEN 0 ELSE ctlMu
    /\ planChangedMutex' = IF planChangedMutex = t THEN 0 ELSE planChangedMutex

\* PairingManager.EnablePairing, called by a controller through the
\* PairingAccessor it was created with.
EnablePairing(t) ==
    /\ PairCall(t)
    /\ pmMu = 0
    /\ LET err == EnableErr(windowOpen, pmConfig, isPaired)
       IN  /\ windowOpen' = IF err = "" THEN TRUE ELSE windowOpen
           /\ plocal' = [plocal EXCEPT ![t] = [NoLocal EXCEPT !.call = pairCalls', !.acc = "enable", !.err = err]]
    /\ UNCHANGED <<pmMu, planChangedMutex, ctlMu, isPaired, pmConfig, controller, timer,
                   boottime, ppc, inForce, pairPanic>>
    /\ UNCHANGED nonPairVars

\* PairingManager.DisablePairing.
DisablePairing(t) ==
    /\ PairCall(t)
    /\ pmMu = 0
    /\ LET err == DisableErr(windowOpen)
       IN  /\ windowOpen' = IF err = "" THEN FALSE ELSE windowOpen
           /\ plocal' = [plocal EXCEPT ![t] = [NoLocal EXCEPT !.call = pairCalls', !.acc = "disable", !.err = err]]
    /\ UNCHANGED <<pmMu, planChangedMutex, ctlMu, isPaired, pmConfig, controller, timer,
                   boottime, ppc, inForce, pairPanic>>
    /\ UNCHANGED nonPairVars

\* A pairing request is accepted while the window is open: the device is
\* paired and the window closes with reason pairing-success.
PairingSucceeded ==
    /\ pairPanic = ""
    /\ pmMu = 0
    /\ windowOpen
    /\ ~isPaired
    /\ isPaired' = TRUE
    /\ windowOpen' = FALSE
    /\ UNCHANGED <<pmMu, planChangedMutex, ctlMu, pmConfig, controller, timer, boottime,
                   ppc, plocal, inForce, pairPanic, pairCalls>>
    /\ UNCHANGED nonPairVars

\* The kernel's clock advances.
Tick ==
    /\ pairPanic = ""
    /\ boottime < MaxBoottime
    /\ boottime' = boottime + 30
    /\ UNCHANGED <<pmMu, planChangedMutex, ctlMu, windowOpen, isPaired, pmConfig, controller,
                   timer, ppc, plocal, inForce, pairPanic, pairCalls>>
    /\ UNCHANGED nonPairVars

\* PairingManager.PlanChanged is called with a plan whose pairing section is c.
PlanChanged(t, c) ==
    /\ PairCall(t)
    /\ ppc' = [ppc EXCEPT ![t] = "pc-lock"]
    /\ plocal' = [plocal EXCEPT ![t] = [NoLocal EXCEPT !.call = pairCalls', !.cfg = c]]
    /\ UNCHANGED <<pmMu, planChangedMutex, ctlMu, windowOpen, isPaired, pmConfig, controller,
                   timer, boottime, inForce, pairPanic>>
    /\ UNCHANGED nonPairVars

\* m.planChangedMutex.Lock()
PcLockPlanChanged(t) ==
    /\ PairRunning(t)
    /\ ppc[t] = "pc-lock"
    /\ planChangedMutex = 0
    /\ planChangedMutex' = t
    /\ ppc' = [ppc EXCEPT ![t] = "pc-mu"]
    /\ UNCHANGED <<pmMu, ctlMu, windowOpen, isPaired, pmConfig, controller, timer, boottime,
                   plocal, inForce, pairPanic, pairCalls>>
    /\ UNCHANGED nonPairVars

\* m.mu.Lock()
PcLockMu(t) ==
    /\ PairRunning(t)
    /\ ppc[t] = "pc-mu"
    /\ pmMu = 0
    /\ pmMu' = t
    /\ ppc' = [ppc EXCEPT ![t] = "pc-changed"]
    /\ UNCHANGED <<planChangedMutex, ctlMu, windowOpen, isPaired, pmConfig, controller, timer,
                   boottime, plocal, inForce, pairPanic, pairCalls>>
    /\ UNCHANGED nonPairVars

\* Whether the new pairing section differs from the one applied last.
Differs(c) ==
    \/ c.mode # inForce.mode
    \/ c.type # inForce.type
    \/ c.duration # inForce.duration

\* if m.windowOpen && m.controller != nil && m.configChanged(newConfig) {
\*     m.windowOpen = false; m.controller.PairingDisabled(disablePairingReconfig) }
\* Config and PairingDisabled take the controller's lock.
PcConfigChanged(t) ==
    /\ PairRunning(t)
    /\ ppc[t] = "pc-changed"
    /\ LET c == plocal[t].cfg
           seen0 == [plocal[t] EXCEPT !.wasOpen = windowOpen, !.differs = Differs(c)]
       IN  IF windowOpen /\ controller # ""
           THEN LET r == configChanged(c)
                IN  /\ (pmConfig = c.mode /\ controller = c.type) => ctlMu = 0
                    /\ IF r = "panic"
                       THEN /\ PairPanics(t)
                            /\ plocal' = [plocal EXCEPT ![t] = seen0]
                            /\ UNCHANGED <<windowOpen, timer>>
                       ELSE /\ r = "true" => ctlMu = 0
                            /\ windowOpen' = IF r = "true" THEN FALSE ELSE windowOpen
                            /\ timer' = IF r = "true" /\ timer # "nil" THEN "stopped" ELSE timer
                            /\ plocal' = [plocal EXCEPT ![t] = [seen0 EXCEPT !.closed = (r = "true")]]
                            /\ ppc' = [ppc EXCEPT ![t] = "pc-apply"]
                            /\ UNCHANGED <<pmMu, planChangedMutex, ctlMu, pairPanic>>
           ELSE /\ plocal' = [plocal EXCEPT ![t] = seen0]
                /\ ppc' = [ppc EXCEPT ![t] = "pc-apply"]
                /\ UNCHANGED <<pmMu, planChangedMutex, ctlMu, windowOpen, timer, pairPanic>>
    /\ UNCHANGED <<isPaired, pmConfig, controller, boottime, inForce, pairCalls>>
    /\ UNCHANGED nonPairVars

\* The configuration is stored, a controller of another type is set aside, a
\* controller of the new type is created, and m.mu is unlocked.
PcApply(t) ==
    /\ PairRunning(t)
    /\ ppc[t] = "pc-apply"
    /\ LET c == plocal[t].cfg
           prev == IF controller # "" /\ controller # c.type THEN controller ELSE ""
           kept == IF prev # "" THEN "" ELSE controller
           curr == IF kept = "" /\ c.type # "" THEN c.type ELSE kept
       IN  /\ pmConfig' = c.mode
           /\ controller' = curr
           /\ inForce' = c
           /\ plocal' = [plocal EXCEPT ![t] =
                  [@ EXCEPT !.prev = prev, !.curr = curr,
                            !.ensArg = IF prev # "" THEN "nil" ELSE "",
                            !.ret = IF prev # "" THEN "pc-curr" ELSE ""]]
           /\ ppc' = [ppc EXCEPT ![t] = IF prev # "" THEN "ec-lock" ELSE "pc-curr"]
    /\ pmMu' = 0
    /\ UNCHANGED <<planChangedMutex, ctlMu, windowOpen, isPaired, timer, boottime, pairPanic,
                   pairCalls>>
    /\ UNCHANGED nonPairVars

\* if currController != nil { currController.EnsureConfig(newConfig.Controller.Config) }
\* and, without a controller, the deferred m.planChangedMutex.Unlock().
PcEnsureCurr(t) ==
    /\ PairRunning(t)
    /\ ppc[t] = "pc-curr"
    /\ IF plocal[t].curr # ""
       THEN /\ ppc' = [ppc EXCEPT ![t] = "ec-lock"]
            /\ plocal' = [plocal EXCEPT ![t] =
                   [@ EXCEPT !.ensArg = "cfg", !.ensEnd = "", !.opened = FALSE,
                             !.ret = "pc-unlock"]]
            /\ UNCHANGED planChangedMutex
       ELSE /\ ppc' = [ppc EXCEPT ![t] = "idle"]
            /\ planChangedMutex' = 0
            /\ plocal' = [plocal EXCEPT ![t] = NoLocal]
    /\ UNCHANGED <<pmMu, ctlMu, windowOpen, isPaired, pmConfig, controller, timer, boottime,
                   inForce, pairPanic, pairCalls>>
    /\ UNCHANGED nonPairVars

\* The deferred m.planChangedMutex.Unlock().
PcUnlock(t) ==
    /\ PairRunning(t)
    /\ ppc[t] = "pc-unlock"
    /\ planChangedMutex' = 0
    /\ ppc' = [ppc EXCEPT ![t] = "idle"]
    /\ plocal' = [plocal EXCEPT ![t] = NoLocal]
    /\ UNCHANGED <<pmMu, ctlMu, windowOpen, isPaired, pmConfig, controller, timer, boottime,
                   inForce, pairPanic, pairCalls>>
    /\ UNCHANGED nonPairVars

\* PowerOnController.EnsureConfig: p.mu.Lock()
EcLock(t) ==
    /\ PairRunning(t)
    /\ ppc[t] = "ec-lock"
    /\ ctlMu = 0
    /\ ctlMu' = t
    /\ ppc' = [ppc EXCEPT ![t] = "ec-body"]
    /\ UNCHANGED <<pmMu, planChangedMutex, windowOpen, isPaired, pmConfig, controller, timer,
                   boottime, plocal, inForce, pairPanic, pairCalls>>
    /\ UNCHANGED nonPairVars

\* Where a call of EnsureConfig returns to.
EcReturn(t) == plocal[t].ret

\* The body of PowerOnController.EnsureConfig, with p.mu held, up to its
\* return and the deferred p.mu.Unlock().
EnsureConfig(t) ==
    /\ PairRunning(t)
    /\ ppc[t] = "ec-body"
    /\ LET c == plocal[t].ensArg
           stopped == IF c = "nil" /\ timer # "nil" THEN "stopped" ELSE timer
           early == boottime < powerOnBootExpiry
           mine == [plocal[t] EXCEPT !.early = early]
       IN  IF stopped # "nil"
           THEN /\ timer' = stopped
                /\ plocal' = [plocal EXCEPT ![t] = [mine EXCEPT !.ensEnd = "returned"]]
                /\ ctlMu' = 0
                /\ ppc' = [ppc EXCEPT ![t] = EcReturn(t)]
                /\ UNCHANGED <<pmMu, planChangedMutex, windowOpen, pairPanic>>
           ELSE IF early
           THEN IF PowerOnConfig = Nil
                THEN /\ PairPanics(t)
                     /\ plocal' = [plocal EXCEPT ![t] = [mine EXCEPT !.ensEnd = "panicked"]]
                     /\ UNCHANGED <<timer, windowOpen>>
                ELSE /\ pmMu = 0
                     /\ LET err == EnableErr(windowOpen, pmConfig, isPaired)
                        IN  /\ windowOpen' = IF err = "" THEN TRUE ELSE windowOpen
                            /\ timer' = IF err = "" THEN "running" ELSE "stopped"
                            /\ plocal' = [plocal EXCEPT ![t] =
                                   [mine EXCEPT !.ensEnd = "returned", !.err = err,
                                                !.opened = (err = "")]]
                     /\ ctlMu' = 0
                     /\ ppc' = [ppc EXCEPT ![t] = EcReturn(t)]
                     /\ UNCHANGED <<pmMu, planChangedMutex, pairPanic>>
           ELSE /\ plocal' = [plocal EXCEPT ![t] = [mine EXCEPT !.ensEnd = "returned"]]
                /\ ctlMu' = 0
                /\ ppc' = [ppc EXCEPT ![t] = EcReturn(t)]
                /\ UNCHANGED <<pmMu, planChangedMutex, windowOpen, timer, pairPanic>>
    /\ UNCHANGED <<isPaired, pmConfig, controller, boottime, inForce, pairCalls>>
    /\ UNCHANGED nonPairVars

NextPairing ==
    \/ PairingSucceeded
    \/ Tick
    \/ \E t \in Threads :
          \/ EnablePairing(t)
          \/ DisablePairing(t)
          \/ \E c \in PairingConfigs : PlanChanged(t, c)
          \/ PcLockPlanChanged(t)
          \/ PcLockMu(t)
          \/ PcConfigChanged(t)
          \/ PcApply(t)
          \/ PcEnsureCurr(t)
          \/ PcUnlock(t)
          \/ EcLock(t)
          \/ EnsureConfig(t)

SpecPairing == Init /\ [][NextPairing]_vars

\* The steps of the calls in progress, the ones that may have to wait for a lock.
PairProgress ==
    \E t \in Threads :
        \/ PcLockPlanChanged(t)
        \/ PcLockMu(t)
        \/ PcConfigChanged(t)
        \/ PcApply(t)
        \/ PcEnsureCurr(t)
        \/ PcUnlock(t)
        \/ EcLock(t)
        \/ EnsureConfig(t)

\* A client of the Controller interface calls EnsureConfig on the power-on
\* controller, with nil or with a configuration.
EnsureConfigCall(t, c) ==
    /\ PairCall(t)
    /\ ppc' = [ppc EXCEPT ![t] = "ec-lock"]
    /\ plocal' = [plocal EXCEPT ![t] =
           [NoLocal EXCEPT !.call = pairCalls', !.ensArg = c, !.ret = "idle"]]
    /\ UNCHANGED <<pmMu, planChangedMutex, ctlMu, windowOpen, isPaired, pmConfig, controller,
                   timer, boottime, inForce, pairPanic>>
    /\ UNCHANGED nonPairVars

NextPowerOn ==
    \/ Tick
    \/ \E t \in Threads :
          \/ \E c \in {"nil", "cfg"} : EnsureConfigCall(t, c)
          \/ EcLock(t)
          \/ EnsureConfig(t)

SpecPowerOn == Init /\ [][NextPowerOn]_vars

(***************************************************************************)
(* The firmware upload: the task handler FirmwareManager.doRefreshUpload   *)
(* and the daemon's HTTP handler uploadRequest.                            *)
(***************************************************************************)

\* timeout := time.After(5 * time.Second), in ms.
uploadTimeout == 5000

\* ticker := time.NewTicker(100 * time.Millisecond), in ms.
uploadTick == 100

\* FirmwareManager.uploadRequest: the request deposited for the change, 0 for nil.
uploadRequest(changeId) == uploadMap[changeId]

\* FirmwareManager.SetUploadRequest, under uploadLock.
SetUploadRequest(changeId, req) == [uploadMap EXCEPT ![changeId] = req]

\* The daemon's uploadRequest: the metadata and the file part are read, the
\* request is deposited with a fresh unbuffered Done channel, and the handler
\* blocks in err = <-done.
HandlerDeposit(h, c) ==
    /\ hPc[h] = "idle"
    /\ hId' = [hId EXCEPT ![h] = c]
    /\ uploadMap' = SetUploadRequest(c, h)
    /\ hPc' = [hPc EXCEPT ![h] = "waiting"]
    /\ UNCHANGED <<upPc, upReq, upErr, upElapsed, hRes>>
    /\ UNCHANGED nonUpVars

\* The task runner starts doRefreshUpload for the upload task of change c: the
\* change id is read and the timeout and the ticker are created.
UploadStart(c) ==
    /\ upPc[c] = "Do"
    /\ upPc' = [upPc EXCEPT ![c] = "poll"]
    /\ upElapsed' = [upElapsed EXCEPT ![c] = 0]
    /\ UNCHANGED <<uploadMap, upReq, upErr, hPc, hId, hRes>>
    /\ UNCHANGED nonUpVars

\* One turn of the ready loop: the request is looked up; without one the
\* task waits for the ticker, or returns an error once the timeout has fired.
UploadPoll(c) ==
    /\ upPc[c] = "poll"
    /\ LET req == uploadRequest(c)
       IN  IF req # 0
           THEN /\ upReq' = [upReq EXCEPT ![c] = req]
                /\ upPc' = [upPc EXCEPT ![c] = "write"]
                /\ UNCHANGED <<upErr, upElapsed>>
           ELSE \/ /\ upElapsed[c] < uploadTimeout
                   /\ upElapsed' = [upElapsed EXCEPT ![c] = @ + uploadTick]
                   /\ UNCHANGED <<upReq, upErr, upPc>>
                \/ /\ upElapsed[c] >= uploadTimeout
                   /\ upErr' = [upErr EXCEPT ![c] = "timeout waiting for client upload metadata"]
                   /\ upPc' = [upPc EXCEPT ![c] = "Error"]
                   /\ UNCHANGED <<upReq, upElapsed>>
    /\ UNCHANGED <<uploadMap, hPc, hId, hRes>>
    /\ UNCHANGED nonUpVars

\* The file is written from req.Source: the copy fails or aw.Commit() returns.
UploadWrite(c) ==
    /\ upPc[c] = "write"
    /\ \E e \in {"", "cannot write"} : upErr' = [upErr EXCEPT ![c] = e]
    /\ upPc' = [upPc EXCEPT ![c] = "send"]
    /\ UNCHANGED <<uploadMap, upReq, upElapsed, hPc, hId, hRes>>
    /\ UNCHANGED nonUpVars

\* The deferred req.Done <- err, received by the handler blocked in <-done,
\* which then returns.
UploadSend(c) ==
    /\ upPc[c] = "send"
    /\ hPc[upReq[c]] = "waiting"
    /\ hRes' = [hRes EXCEPT ![upReq[c]] = upErr[c]]
    /\ hPc' = [hPc EXCEPT ![upReq[c]] = "returned"]
    /\ upPc' = [upPc EXCEPT ![c] = IF upErr[c] = "" THEN "Done" ELSE "Error"]
    /\ UNCHANGED <<uploadMap, upReq, upErr, upElapsed, hId>>
    /\ UNCHANGED nonUpVars

UploadTask(c) == UploadStart(c) \/ UploadPoll(c) \/ UploadWrite(c) \/ UploadSend(c)

NextUpload ==
    \/ \E h \in UpHandlers : \E c \in UpChanges : HandlerDeposit(h, c)
    \/ \E c \in UpChanges : UploadStart(c)
    \/ \E c \in UpChanges : UploadPoll(c)
    \/ \E c \in UpChanges : UploadWrite(c)
    \/ \E c \in UpChanges : UploadSend(c)

\* The task runner runs every task that can run, and a goroutine that can
\* proceed does.
SpecUpload ==
    /\ Init
    /\ [][NextUpload]_vars
    /\ \A c \in UpChanges : WF_vars(UploadTask(c))

(***************************************************************************)
(* The operations on changes, tasks and notices, and Prune.                *)
(***************************************************************************)

PruneStep ==
    /\ ~pruned.done
    /\ pSteps < MaxPruneSteps
    /\ pSteps' = pSteps + 1

\* Statuses in which a task has ended.
Terminal == {"Done", "Error", "Hold", "Undone", "Abort"}

\* Change.Tasks, as task ids.
TasksOf(tks, c) == IF tks[c].live THEN {c} ELSE {}

\* A change becomes ready, with the current time as its ready time, when a
\* status change leaves all its tasks ended.
MarkReady(chs, tks, now) ==
    [c \in PruneChangeIds |->
        IF /\ chs[c].live
           /\ chs[c].ready = 0
           /\ TasksOf(tks, c) # {}
           /\ \A t \in TasksOf(tks, c) : tks[t].status \in Terminal
        THEN [chs[c] EXCEPT !.ready = now]
        ELSE chs[c]]

\* Change.AbortUnreadyLanes: the tasks not yet started are aborted, the running
\* ones are told to stop.
AbortTasks(tks, c) ==
    [t \in PruneTaskIds |->
        IF t \in TasksOf(tks, c)
        THEN [tks[t] EXCEPT !.status = IF @ = "Do" THEN "Abort"
                                       ELSE IF @ = "Doing" THEN "Aborting" ELSE @]
        ELSE tks[t]]

VetoedNever(chs, c, reg) == FALSE

\* for attr, pending := range s.pendingChangeByAttr: chg.Has(attr) && pending(chg)
Vetoed(chs, c, reg) == \E attr \in reg : chs[c].attr = attr /\ chs[c].pend

Later(a, b) == IF a < b THEN b ELSE a

\* sort.Sort(byReadyTime(changes)) of the changes in map order: the orders
\* with ready times ascending, the zero time first.
byReadyTime(chs) ==
    LET live == {c \in PruneChangeIds : chs[c].live}
    IN  {o \in [1..Cardinality(live) -> live] :
            /\ \A i, j \in DOMAIN o : i # j => o[i] # o[j]
            /\ \A i, j \in DOMAIN o : i < j => chs[o[i]].ready <= chs[o[j]].ready}

\* The first loop of Prune: the changes counted from the end of the sorted
\* list down to the first one whose ready time is zero.
readyChangesCount(chs, o) ==
    Cardinality({i \in DOMAIN o : \A j \in i..Len(o) : chs[o[j]].ready # 0})

\* One turn of the NextChange loop, on st = [changes, tasks, count].
PruneChangeKeepingOld(st, c, reg, a, now) ==
    LET chg == st.changes[c]
        spawnTime == Later(chg.spawn, a.startOfOperation)
    IN  IF chg.ready = 0
        THEN IF spawnTime < now - a.pruneWait /\ TasksOf(st.tasks, c) = {}
             THEN [st EXCEPT !.changes[c] = NoChange]
             ELSE IF spawnTime < now - a.abortWait /\ ~Vetoed(st.changes, c, reg)
             THEN LET tks == AbortTasks(st.tasks, c)
                  IN  [st EXCEPT !.tasks = tks, !.changes = MarkReady(st.changes, tks, now)]
             ELSE st
        ELSE IF st.count > a.maxReadyChanges
        THEN [changes |-> [st.changes EXCEPT ![c] = NoChange],
              tasks |-> [t \in PruneTaskIds |->
                            IF t \in TasksOf(st.tasks, c) THEN NoTask ELSE st.tasks[t]],
              count |-> st.count - 1]
        ELSE st

PruneChange(st, c, reg, a, now) ==
    LET chg == st.changes[c]
        spawnTime == Later(chg.spawn, a.startOfOperation)
    IN  IF chg.ready = 0
        THEN IF spawnTime < now - a.pruneWait /\ TasksOf(st.tasks, c) = {}
             THEN [st EXCEPT !.changes[c] = NoChange]
             ELSE IF spawnTime < now - a.abortWait
             THEN IF Vetoed(st.changes, c, reg)
                  THEN st
                  ELSE LET tks == AbortTasks(st.tasks, c)
                       IN  [st EXCEPT !.tasks = tks,
                                      !.changes = MarkReady(st.changes, tks, now)]
             ELSE st
        ELSE IF chg.ready < now - a.pruneWait \/ st.count > a.maxReadyChanges
        THEN [changes |-> [st.changes EXCEPT ![c] = NoChange],
              tasks |-> [t \in PruneTaskIds |->
                            IF t \in TasksOf(st.tasks, c) THEN NoTask ELSE st.tasks[t]],
              count |-> st.count - 1]
        ELSE st

RECURSIVE PruneChanges(_, _, _, _, _, _)
PruneChanges(o, i, st, reg, a, now) ==
    IF i > Len(o) THEN st
    ELSE PruneChanges(o, i + 1, PruneChange(st, o[i], reg, a, now), reg, a, now)

\* The loop over s.tasks: a task linked to no change and spawned before the
\* prune limit is deleted.
PruneTasks(tks, a, now) ==
    [t \in PruneTaskIds |->
        IF tks[t].live /\ t = 0 /\ tks[t].spawn < now - a.pruneWait THEN NoTask ELSE tks[t]]

\* Notice.expired
expired(n, now) == n.lastOccurred + n.expireAfter < now

\* The loop over s.notices.
PruneNotices(nts, chs, now) ==
    [k \in NoticeKeys |->
        IF ~nts[k].live THEN NoNotice
        ELSE IF expired(nts[k], now) THEN NoNotice
        ELSE IF k # 0 /\ ~chs[k].live THEN NoNotice
        ELSE nts[k]]

\* The time stored in s.latestWarningTime: the latest lastRepeated of the
\* warnings that have not expired.
LatestWarning(nts, now) ==
    IF nts[0].live /\ ~expired(nts[0], now) THEN nts[0].lastRepeated ELSE 0

\* pruneMaxNotices: the notices sorted by lastOccurred, in an order o that the
\* sort may produce, lose their first len - maxNotices.
byLastOccurred(nts) ==
    LET live == {k \in NoticeKeys : nts[k].live}
    IN  {o \in [1..Cardinality(live) -> live] :
            /\ \A i, j \in DOMAIN o : i # j => o[i] # o[j]
            /\ \A i, j \in DOMAIN o :
                  i < j => nts[o[i]].lastOccurred <= nts[o[j]].lastOccurred}

pruneMaxNoticesNewest(nts, o, maxNotices) ==
    LET numToRemove == Len(o) - maxNotices
    IN  [k \in NoticeKeys |->
            IF \E i \in (maxNotices + 1)..Len(o) : o[i] = k THEN NoNotice ELSE nts[k]]

pruneMaxNotices(nts, o, maxNotices) ==
    LET numToRemove == Len(o) - maxNotices
    IN  [k \in NoticeKeys |->
            IF \E i \in 1..numToRemove : o[i] = k THEN NoNotice ELSE nts[k]]

\* The states Prune can leave: one for every order the two sorts can produce.
PruneResults(chs, tks, nts, reg, a, now) ==
    UNION {
        LET st == PruneChanges(o, 1, [changes |-> chs, tasks |-> tks,
                                      count |-> readyChangesCount(chs, o)], reg, a, now)
            nts1 == PruneNotices(nts, st.changes, now)
            base == [changes |-> st.changes,
                     tasks |-> PruneTasks(st.tasks, a, now),
                     latestWarningTime |-> LatestWarning(nts, now)]
        IN  IF Cardinality({k \in NoticeKeys : nts1[k].live}) > a.maxNotices
            THEN {[changes |-> base.changes, tasks |-> base.tasks,
                   latestWarningTime |-> base.latestWarningTime,
                   notices |-> pruneMaxNotices(nts1, no, a.maxNotices)] :
                     no \in byLastOccurred(nts1)}
            ELSE {[changes |-> base.changes, tasks |-> base.tasks,
                   latestWarningTime |-> base.latestWarningTime, notices |-> nts1]}
        : o \in byReadyTime(chs)}

\* State.Prune, called with the state lock held, at time clock; the run is
\* followed up to the return of Prune.
Prune(a) ==
    /\ PruneStep
    /\ \E r \in PruneResults(changes, tasks, notices, pendingChangeByAttr, a, clock) :
          /\ changes' = r.changes
          /\ tasks' = r.tasks
          /\ notices' = r.notices
          /\ latestWarningTime' = r.latestWarningTime
    /\ pruned' = [done |-> TRUE, args |-> a, changes |-> changes, tasks |-> tasks,
                   notices |-> notices]
    /\ UNCHANGED clock
    /\ UNCHANGED nonPruneVars

\* A notice that occurs at time now.
Occurred(now) ==
    [live |-> TRUE, lastOccurred |-> now, lastRepeated |-> now, expireAfter |-> 1]

\* State.NewChange, the change taking the first free id, with or without a task (State.NewTask, Change.AddTask),
\* the task not started, running or already Done, and with or without an
\* attribute;
\* the change-update notice of the change occurs.
NewChange(c, st, attr, pend) ==
    /\ PruneStep
    /\ ~changes[c].live
    /\ \A d \in PruneChangeIds : d < c => changes[d].live
    /\ ~tasks[c].live
    /\ tasks' = IF st = "" THEN tasks
                ELSE [tasks EXCEPT ![c] = [live |-> TRUE, spawn |-> clock, status |-> st]]
    /\ changes' = MarkReady([changes EXCEPT ![c] =
           [live |-> TRUE, spawn |-> clock, ready |-> 0, attr |-> attr, pend |-> pend]],
           tasks', clock)
    /\ notices' = [notices EXCEPT ![c] = Occurred(clock)]
    /\ UNCHANGED pruned
    /\ UNCHANGED <<latestWarningTime, clock>>
    /\ UNCHANGED nonPruneVars

\* State.NewTask of a task that is added to no change.
NewTask ==
    /\ PruneStep
    /\ ~tasks[0].live
    /\ tasks' = [tasks EXCEPT ![0] = [live |-> TRUE, spawn |-> clock, status |-> "Do"]]
    /\ UNCHANGED pruned
    /\ UNCHANGED <<changes, notices, latestWarningTime, clock>>
    /\ UNCHANGED nonPruneVars

\* The handler of a running task returns: the task is Done, or Error if it
\* had been told to stop, its change may now be ready, and the change-update
\* notice of the change occurs again.
TaskReturns(c) ==
    /\ PruneStep
    /\ changes[c].live
    /\ tasks[c].live
    /\ tasks[c].status \in {"Doing", "Aborting"}
    /\ tasks' = [tasks EXCEPT ![c].status = IF @ = "Doing" THEN "Done" ELSE "Error"]
    /\ changes' = MarkReady(changes, tasks', clock)
    /\ notices' = [notices EXCEPT ![c] = Occurred(clock)]
    /\ UNCHANGED pruned
    /\ UNCHANGED <<latestWarningTime, clock>>
    /\ UNCHANGED nonPruneVars

\* State.AddNotice of a warning.
AddNotice ==
    /\ PruneStep
    /\ notices' = [notices EXCEPT ![0] = Occurred(clock)]
    /\ UNCHANGED pruned
    /\ UNCHANGED <<changes, tasks, latestWarningTime, clock>>
    /\ UNCHANGED nonPruneVars

\* Time passes.
ClockTick ==
    /\ PruneStep
    /\ clock' = clock + 1
    /\ UNCHANGED pruned
    /\ UNCHANGED <<changes, tasks, notices, latestWarningTime>>
    /\ UNCHANGED nonPruneVars

\* A manager registers its predicate when it is constructed, before any
\* change exists.
PruneRegister ==
    /\ pSteps = 0
    /\ clock = 1
    /\ RegisterPendingChangeByAttr(1)

NextPrune ==
    \/ \E a \in PruneArgs : Prune(a)
    \/ \E c \in PruneChangeIds : \E st \in {"", "Do", "Doing", "Done"} :
          \/ NewChange(c, st, "", FALSE)
          \/ NewChange(c, st, "attr", TRUE)
    \/ NewTask
    \/ \E c \in PruneChangeIds : TaskReturns(c)
    \/ AddNotice
    \/ ClockTick
    \/ PruneRegister

SpecPrune == Init /\ [][NextPrune]_vars

\* The runs in which every task belongs to a change and no warning occurs.
NextPruneChanges ==
    \/ \E a \in ChangeArgs : Prune(a)
    \/ \E c \in PruneChangeIds : \E st \in {"", "Do", "Doing", "Done"} :
          \/ NewChange(c, st, "", FALSE)
          \/ NewChange(c, st, "attr", TRUE)
    \/ \E c \in PruneChangeIds : TaskReturns(c)
    \/ ClockTick
    \/ PruneRegister

SpecPruneChanges == Init /\ [][NextPruneChanges]_vars

(***************************************************************************)
(* The ids of changes, tasks and lanes, and the state saved and read back. *)
(* A change is kept under its id; the task of a change is kept with the    *)
(* change, and carries its own id.                                         *)
(***************************************************************************)

StoreStep ==
    /\ pSteps < MaxStoreSteps
    /\ pSteps' = pSteps + 1

\* The fields of the State that these operations leave alone.
stRest == <<stateMu, muC, backend, stPc, since, ser, ticket, acquired,
            needsCheckpoint, ckpts, seen, lastAccess, panicked>>

\* State.NewChangeWithNoticeData, followed or not by NewTask and Change.AddTask
\* of a task in status st, itself followed or not by NewLane and
\* Task.JoinLane; the change-update notice of the new change occurs.
NewChangeWithNoticeData(st, inLane) ==
    /\ StoreStep
    /\ lastChangeId < MaxPruneChanges
    /\ inLane => st # ""
    /\ LET id == lastChangeId + 1
           withTask == st # ""
           tid == lastTaskId + 1
           lid == lastLaneId + 1
       IN  /\ lastChangeId' = id
           /\ lastTaskId' = IF withTask THEN tid ELSE lastTaskId
           /\ lastLaneId' = IF inLane THEN lid ELSE lastLaneId
           /\ tasks' = IF withTask
                       THEN [tasks EXCEPT ![id] = [live |-> TRUE, spawn |-> clock, status |-> st]]
                       ELSE tasks
           /\ taskIds' = IF withTask THEN [taskIds EXCEPT ![id] = tid] ELSE taskIds
           /\ lanes' = IF inLane THEN [lanes EXCEPT ![id] = {lid}] ELSE lanes
           /\ changes' = MarkReady([changes EXCEPT ![id] =
                  [live |-> TRUE, spawn |-> clock, ready |-> 0, attr |-> "", pend |-> FALSE]],
                  tasks', clock)
           /\ bound' = [changes |-> [bound.changes EXCEPT ![id] = self],
                        tasks |-> IF withTask THEN [bound.tasks EXCEPT ![id] = self]
                                  ELSE bound.tasks]
           /\ issued' = [change |-> Append(issued.change, id),
                         task |-> IF withTask THEN Append(issued.task, tid) ELSE issued.task,
                         lane |-> IF inLane THEN Append(issued.lane, lid) ELSE issued.lane]
    /\ notices' = [notices EXCEPT ![lastChangeId'] = Occurred(clock)]
    /\ lastNoticeId' = lastNoticeId + 1
    /\ modified' = TRUE
    /\ UNCHANGED <<latestWarningTime, clock, pruned, data, pendingChangeByAttr>>
    /\ UNCHANGED <<lastHandlerId, identities, cache, taskHandlers, changeHandlers,
                   self, json, saved>>
    /\ UNCHANGED stRest
    /\ UNCHANGED nonStoreVars

\* State.NewTask of a task that is added to no change.
NewUnlinkedTask ==
    /\ StoreStep
    /\ ~tasks[0].live
    /\ lastTaskId < MaxPruneChanges + 1
    /\ lastTaskId' = lastTaskId + 1
    /\ tasks' = [tasks EXCEPT ![0] = [live |-> TRUE, spawn |-> clock, status |-> "Do"]]
    /\ taskIds' = [taskIds EXCEPT ![0] = lastTaskId']
    /\ bound' = [bound EXCEPT !.tasks[0] = self]
    /\ issued' = [issued EXCEPT !.task = Append(@, lastTaskId')]
    /\ modified' = TRUE
    /\ UNCHANGED <<changes, notices, latestWarningTime, clock, pruned, data,
                   pendingChangeByAttr>>
    /\ UNCHANGED <<lastChangeId, lastLaneId, lastNoticeId, lastHandlerId, identities,
                   cache, taskHandlers, changeHandlers, lanes, self, json, saved>>
    /\ UNCHANGED stRest
    /\ UNCHANGED nonStoreVars

\* State.Prune, after which the state goes on being used: what it deletes
\* takes its id, its lanes and its link to the State with it.
PruneStore(a) ==
    /\ StoreStep
    /\ \E r \in PruneResults(changes, tasks, notices, pendingChangeByAttr, a, clock) :
          /\ changes' = r.changes
          /\ tasks' = r.tasks
          /\ notices' = r.notices
          /\ latestWarningTime' = r.latestWarningTime
          /\ modified' = (modified \/ r.changes # changes \/ r.tasks # tasks)
    /\ taskIds' = [t \in PruneTaskIds |-> IF tasks'[t].live THEN taskIds[t] ELSE 0]
    /\ lanes' = [t \in PruneTaskIds |-> IF tasks'[t].live THEN lanes[t] ELSE {}]
    /\ bound' = [changes |-> [c \in PruneChangeIds |->
                                 IF changes'[c].live THEN bound.changes[c] ELSE 0],
                 tasks |-> [t \in PruneTaskIds |->
                                 IF tasks'[t].live THEN bound.tasks[t] ELSE 0]]
    /\ UNCHANGED <<clock, pruned, data, pendingChangeByAttr>>
    /\ UNCHANGED <<lastChangeId, lastTaskId, lastLaneId, lastNoticeId, lastHandlerId,
                   identities, cache, taskHandlers, changeHandlers, self, json, issued,
                   saved>>
    /\ UNCHANGED stRest
    /\ UNCHANGED nonStoreVars

\* Time passes.
StoreTick ==
    /\ StoreStep
    /\ clock' = clock + 1
    /\ UNCHANGED <<changes, tasks, notices, latestWarningTime, pruned>>
    /\ UNCHANGED <<modified, data, pendingChangeByAttr>>
    /\ UNCHANGED storeVars
    /\ UNCHANGED stRest
    /\ UNCHANGED nonStoreVars

\* State.marshalledIdentities: the JSON object of the identities, one member
\* for each name.
marshalledIdentities(ids) ==
    {[name |-> n,
      Access |-> Deref(ids[n]).Access,
      Local |-> IF Deref(ids[n]).Local # Nil
                THEN Ptr([UserID |-> Deref(Deref(ids[n]).Local).UserID]) ELSE Nil,
      Basic |-> IF Deref(ids[n]).Basic # Nil
                THEN Ptr([Password |-> Deref(Deref(ids[n]).Basic).Password]) ELSE Nil] :
        n \in {m \in IdentityNames : ids[m] # Nil}}

\* State.unmarshalIdentities
unmarshalIdentities(marshalled) ==
    [n \in IdentityNames |->
        IF \E mi \in marshalled : mi.name = n
        THEN LET mi == CHOOSE e \in marshalled : e.name = n
             IN  Ptr([Name |-> n,
                      Access |-> mi.Access,
                      Local |-> IF mi.Local # Nil
                                THEN Ptr([UserID |-> Deref(mi.Local).UserID]) ELSE Nil,
                      Basic |-> IF mi.Basic # Nil
                                THEN Ptr([Password |-> Deref(mi.Basic).Password]) ELSE Nil])
        ELSE Nil]

\* State.flattenNotices(nil): the notices as a list, in the order o of the
\* map iteration.
flattenNotices(nts, o) == [i \in DOMAIN o |-> [key |-> o[i], notice |-> nts[o[i]]]]

\* The orders in which the notices can be listed.
NoticeOrders(nts) ==
    LET live == {k \in NoticeKeys : nts[k].live}
    IN  {o \in [1..Cardinality(live) -> live] : \A i, j \in DOMAIN o : i # j => o[i] # o[j]}

\* State.unflattenNotices: the map of the notices, each under its key.
unflattenNotices(flat) ==
    [k \in NoticeKeys |->
        IF \E i \in DOMAIN flat : flat[i].key = k
        THEN flat[CHOOSE i \in DOMAIN flat : flat[i].key = k].notice
        ELSE NoNotice]

marshalledStateWithoutIds(o) ==
    [Data |-> data,
     Changes |-> {[id |-> c, change |-> changes[c]] : c \in {d \in PruneChangeIds : changes[d].live}},
     Tasks |-> {[id |-> taskIds[t], change |-> t, task |-> tasks[t], lanes |-> lanes[t]] :
                    t \in {u \in PruneTaskIds : tasks[u].live}},
     Notices |-> flattenNotices(notices, o),
     Identities |-> marshalledIdentities(identities),
     LastChangeId |-> 0,
     LastTaskId |-> 0,
     LastLaneId |-> 0,
     LastNoticeId |-> 0]

\* json.Marshal(marshalledState{...}): the changes and the tasks are objects
\* with one member for each id; a task names its change; the State a change
\* or a task points to is not written.
marshalledState(o) ==
    [Data |-> data,
     Changes |-> {[id |-> c, change |-> changes[c]] : c \in {d \in PruneChangeIds : changes[d].live}},
     Tasks |-> {[id |-> taskIds[t], change |-> t, task |-> tasks[t], lanes |-> lanes[t]] :
                    t \in {u \in PruneTaskIds : tasks[u].live}},
     Notices |-> flattenNotices(notices, o),
     Identities |-> marshalledIdentities(identities),
     LastChangeId |-> lastChangeId,
     LastTaskId |-> lastTaskId,
     LastLaneId |-> lastLaneId,
     LastNoticeId |-> lastNoticeId]

\* What a State holds that is to survive: kept to compare with what is read
\* back.
Persistent ==
    [data |-> data, changes |-> changes, tasks |-> tasks, notices |-> notices,
     identities |-> identities, taskIds |-> taskIds, lanes |-> lanes,
     lastChangeId |-> lastChangeId, lastTaskId |-> lastTaskId,
     lastLaneId |-> lastLaneId, lastNoticeId |-> lastNoticeId]

\* What a State holds that is not written.
Transient ==
    [cache |-> cache, taskHandlers |-> taskHandlers, changeHandlers |-> changeHandlers,
     pendingChangeByAttr |-> pendingChangeByAttr, modified |-> modified]

\* State.MarshalJSON
Marshal ==
    /\ \E o \in NoticeOrders(notices) : json' = Ptr(marshalledState(o))
    /\ saved' = Ptr([state |-> Persistent, issued |-> issued, transient |-> Transient])
    /\ UNCHANGED <<changes, tasks, notices, latestWarningTime, clock, pruned>>
    /\ UNCHANGED <<modified, data, pendingChangeByAttr>>
    /\ UNCHANGED <<lastChangeId, lastTaskId, lastLaneId, lastNoticeId, lastHandlerId,
                   identities, cache, taskHandlers, changeHandlers, taskIds, lanes, bound,
                   self, issued>>
    /\ UNCHANGED stRest
    /\ UNCHANGED nonStoreVars

MarshalJSON == StoreStep /\ Marshal

UnmarshalJSONUnbound(unmarshalled, s) ==
    [changes |-> [c \in PruneChangeIds |-> 0],
     tasks |-> [t \in PruneTaskIds |->
                     IF \E e \in unmarshalled.Tasks : e.change = t THEN s ELSE 0]]

\* The end of State.UnmarshalJSON: every task and every change read is linked
\* to the State s.
UnmarshalJSON(unmarshalled, s) ==
    [changes |-> [c \in PruneChangeIds |->
                     IF \E e \in unmarshalled.Changes : e.id = c THEN s ELSE 0],
     tasks |-> [t \in PruneTaskIds |->
                     IF \E e \in unmarshalled.Tasks : e.change = t THEN s ELSE 0]]

\* ReadState of the last JSON written: a new State is filled by
\* State.UnmarshalJSON, then given the backend and empty transient fields. The
\* ids handed out since the JSON was written are lost with the old State.
Read ==
    /\ json # Nil
    /\ LET unmarshalled == Deref(json)
       IN  /\ data' = unmarshalled.Data
           /\ changes' = [c \in PruneChangeIds |->
                 IF \E e \in unmarshalled.Changes : e.id = c
                 THEN (CHOOSE e \in unmarshalled.Changes : e.id = c).change
                 ELSE NoChange]
           /\ tasks' = [t \in PruneTaskIds |->
                 IF \E e \in unmarshalled.Tasks : e.change = t
                 THEN (CHOOSE e \in unmarshalled.Tasks : e.change = t).task
                 ELSE NoTask]
           /\ taskIds' = [t \in PruneTaskIds |->
                 IF \E e \in unmarshalled.Tasks : e.change = t
                 THEN (CHOOSE e \in unmarshalled.Tasks : e.change = t).id
                 ELSE 0]
           /\ lanes' = [t \in PruneTaskIds |->
                 IF \E e \in unmarshalled.Tasks : e.change = t
                 THEN (CHOOSE e \in unmarshalled.Tasks : e.change = t).lanes
                 ELSE {}]
           /\ notices' = unflattenNotices(unmarshalled.Notices)
           /\ identities' = unmarshalIdentities(unmarshalled.Identities)
           /\ lastChangeId' = unmarshalled.LastChangeId
           /\ lastTaskId' = unmarshalled.LastTaskId
           /\ lastLaneId' = unmarshalled.LastLaneId
           /\ lastNoticeId' = unmarshalled.LastNoticeId
           /\ self' = self + 1
           /\ bound' = UnmarshalJSON(unmarshalled, self')
    /\ modified' = FALSE
    /\ cache' = {}
    /\ pendingChangeByAttr' = {}
    /\ changeHandlers' = {}
    /\ taskHandlers' = {}
    /\ lastHandlerId' = 0
    /\ latestWarningTime' = 0
    /\ issued' = Deref(saved).issued
    /\ UNCHANGED <<clock, pruned, json, saved>>
    /\ UNCHANGED stRest
    /\ UNCHANGED nonStoreVars

ReadState == StoreStep /\ Read

NextIds ==
    \/ \E st \in {"", "Do", "Done"} : \E inLane \in BOOLEAN : NewChangeWithNoticeData(st, inLane)
    \/ NewUnlinkedTask
    \/ \E a \in ChangeArgs : PruneStore(a)
    \/ StoreTick
    \/ MarshalJSON
    \/ ReadState

SpecIds == Init /\ [][NextIds]_vars

\* State.Unlock after the operations above, the backend acknowledging the
\* checkpoint: nothing is written unless the state is modified and has a
\* backend; else the state is serialised and written, and modified cleared.
UnlockStore ==
    /\ StoreStep
    /\ IF ~modified \/ backend = "nil"
       THEN UNCHANGED <<modified, json, saved>>
       ELSE /\ \E o \in NoticeOrders(notices) : json' = Ptr(marshalledState(o))
            /\ saved' = Ptr([state |-> Persistent, issued |-> issued,
                             transient |-> Transient])
            /\ modified' = FALSE
    /\ UNCHANGED <<changes, tasks, notices, latestWarningTime, clock, pruned>>
    /\ UNCHANGED <<data, pendingChangeByAttr>>
    /\ UNCHANGED <<lastChangeId, lastTaskId, lastLaneId, lastNoticeId, lastHandlerId,
                   identities, cache, taskHandlers, changeHandlers, taskIds, lanes, bound,
                   self, issued>>
    /\ UNCHANGED stRest
    /\ UNCHANGED nonStoreVars

\* The state is used and pruned between Lock and Unlock.
NextPruneStore ==
    \/ \E st \in {"", "Do", "Done"} : \E inLane \in BOOLEAN : NewChangeWithNoticeData(st, inLane)
    \/ NewUnlinkedTask
    \/ \E a \in ChangeArgs : PruneStore(a)
    \/ StoreTick
    \/ UnlockStore

SpecPruneStore == Init /\ [][NextPruneStore]_vars

\* The states to save and read back: n changes have been made, each one since
\* removed, without a task, or with a task waiting or Done; a task linked to
\* no change, a warning, ids handed out to what has since been removed,
\* identities, and handlers, predicates and cache entries may be there.
StoredKinds == {"gone", "bare", "Do", "Done"}

StoredIdentities ==
    {[n \in IdentityNames |-> Nil],
     [n \in IdentityNames |->
        IF n = "bob"
        THEN Ptr([Name |-> n, Access |-> "admin", Local |-> Ptr([UserID |-> 1000]), Basic |-> Nil])
        ELSE Nil],
     [n \in IdentityNames |->
        IF n = "bob"
        THEN Ptr([Name |-> n, Access |-> "admin", Local |-> Ptr([UserID |-> 1000]), Basic |-> Nil])
        ELSE Ptr([Name |-> n, Access |-> "read", Local |-> Nil,
                  Basic |-> Ptr([Password |-> "hash"])])]}

InitStored ==
    /\ PlanInit /\ MgrInit /\ TaskInit /\ NewPairingManager /\ NewFirmwareManager
    /\ ServicesInit
    /\ stateMu = 0
    /\ muC = 0
    /\ backend = "set"
    /\ stPc = [t \in Threads |-> "idle"]
    /\ since = [t \in Threads |-> 0]
    /\ ser = [t \in Threads |-> 0]
    /\ ticket = [t \in Threads |-> 0]
    /\ acquired = 0
    /\ needsCheckpoint = TRUE
    /\ ckpts = <<>>
    /\ seen = [t \in Threads |-> 0]
    /\ lastAccess = NoAccess
    /\ panicked = ""
    /\ clock = 1
    /\ pruned = NoPruned
    /\ pSteps = 0
    /\ self = 1
    /\ json = Nil
    /\ saved = Nil
    /\ \E n \in 0..MaxPruneChanges : \E kind \in [1..n -> StoredKinds] :
       \E t0, warn, populated \in BOOLEAN : \E slack \in {0, 1} :
          /\ changes = [c \in PruneChangeIds |->
                IF c > n \/ kind[c] = "gone" THEN NoChange
                ELSE [live |-> TRUE, spawn |-> 1,
                      ready |-> IF kind[c] = "Done" THEN 1 ELSE 0,
                      attr |-> IF populated THEN "attr" ELSE "", pend |-> FALSE]]
          /\ tasks = [t \in PruneTaskIds |->
                IF t = 0
                THEN IF t0 THEN [live |-> TRUE, spawn |-> 1, status |-> "Do"] ELSE NoTask
                ELSE IF t <= n /\ kind[t] \in {"Do", "Done"}
                THEN [live |-> TRUE, spawn |-> 1, status |-> kind[t]]
                ELSE NoTask]
          /\ taskIds = [t \in PruneTaskIds |->
                IF ~tasks[t].live THEN 0 ELSE IF t = 0 THEN n + 1 ELSE t]
          /\ lanes = [t \in PruneTaskIds |->
                IF tasks[t].live /\ t # 0 /\ populated THEN {t} ELSE {}]
          /\ notices = [k \in NoticeKeys |->
                IF k = 0 THEN IF warn THEN Occurred(1) ELSE NoNotice
                ELSE IF changes[k].live THEN Occurred(1) ELSE NoNotice]
          /\ latestWarningTime = IF warn THEN 1 ELSE 0
          /\ lastChangeId = n + slack
          /\ lastTaskId = n + 1 + slack
          /\ lastLaneId = n + slack
          /\ lastNoticeId = n + 1 + slack
          /\ issued = [change |-> [i \in 1..lastChangeId |-> i],
                       task |-> [i \in 1..lastTaskId |-> i],
                       lane |-> [i \in 1..lastLaneId |-> i]]
          /\ bound = [changes |-> [c \in PruneChangeIds |-> IF changes[c].live THEN 1 ELSE 0],
                      tasks |-> [t \in PruneTaskIds |-> IF tasks[t].live THEN 1 ELSE 0]]
          /\ data = IF populated THEN 1 ELSE 0
          /\ cache = IF populated THEN {"key"} ELSE {}
          /\ taskHandlers = IF populated THEN {0} ELSE {}
          /\ changeHandlers = IF populated THEN {1} ELSE {}
          /\ lastHandlerId = IF populated THEN 2 ELSE 0
          /\ pendingChangeByAttr = IF populated THEN {"attr"} ELSE {}
    /\ modified \in BOOLEAN
    /\ identities \in StoredIdentities

\* The state is serialised once, and what was written is read once.
SaveOnce == json = Nil /\ Marshal /\ UNCHANGED pSteps

ReadOnce == self = 1 /\ Read /\ UNCHANGED pSteps

NextReadState == SaveOnce \/ ReadOnce

SpecReadState == InitStored /\ [][NextReadState]_vars

(***************************************************************************)
(* CombineLayers on services that carry, besides override and command, a   *)
(* list (After) and a map (Environment).  A map is a reference: the        *)
(* service holds its address in envs, 0 for the nil map.  A list is held   *)
(* by value: Copy gives the copy a slice of its own before Merge appends.  *)
(***************************************************************************)
EnvKeys == {"k"}
EnvValues == {"v1", "v2"}
EnvMaps == UNION {[K -> EnvValues] : K \in SUBSET EnvKeys}
AfterLists == {<<>>, <<"a">>, <<"b", "a">>}

\* The services a layer file may define; one without override defines
\* nothing else.
ServiceArgs ==
    {sv \in [override : Overrides, command : Commands, after : AfterLists,
             environment : {Nil} \cup {Ptr(m) : m \in EnvMaps \ {[k \in {} |-> ""]}}] :
        sv.override = UnknownOverride =>
            sv.command = "" /\ sv.after = <<>> /\ sv.environment = Nil}

ServiceParts == UNION {[N -> ServiceArgs] : N \in SUBSET Names}

\* m with name n bound to v.
Put(m, n, v) == [x \in DOMAIN m \cup {n} |-> IF x = n THEN v ELSE m[x]]

\* The Services of a layer as decoding leaves them in memory: every
\* Environment that is set is a map of its own.
RECURSIVE NewServices(_, _, _)
NewServices(h, parts, done) ==
    IF DOMAIN done = DOMAIN parts THEN [envs |-> h, services |-> done]
    ELSE LET n == CHOOSE x \in DOMAIN parts \ DOMAIN done : TRUE
             sv == parts[n]
             h2 == IF sv.environment = Nil THEN h ELSE Append(h, Deref(sv.environment))
         IN  NewServices(h2, parts,
                 Put(done, n, [override |-> sv.override, command |-> sv.command,
                               after |-> sv.after,
                               env |-> IF sv.environment = Nil THEN 0 ELSE Len(h2)]))

\* A copy of the struct alone: the copy holds the map of s.
ServiceCopyShallow(h, s) == [envs |-> h, svc |-> s]

\* Service.Copy: a deep copy, with a new map when Environment is not nil.
ServiceCopy(h, s) ==
    IF s.env = 0 THEN [envs |-> h, svc |-> s]
    ELSE [envs |-> Append(h, h[s.env]), svc |-> [s EXCEPT !.env = Len(h) + 1]]

\* The values of list not yet in held, in order.
RECURSIVE Unseen(_, _)
Unseen(held, list) ==
    IF list = <<>> THEN <<>>
    ELSE IF \E i \in 1..Len(held) : held[i] = Head(list) THEN Unseen(held, Tail(list))
    ELSE <<Head(list)>> \o Unseen(Append(held, Head(list)), Tail(list))

\* The maps in memory after the keys of from are written into the map at a.
MergedEnv(h, a, from) ==
    [h EXCEPT ![a] = [k \in DOMAIN h[a] \cup DOMAIN from |->
                         IF k \in DOMAIN from THEN from[k] ELSE h[a][k]]]

\* A merge that adds to After only the values it does not hold yet.
ServiceMergeUnique(h, s, other) ==
    LET merged == [s EXCEPT !.command = IF other.command # "" THEN other.command ELSE @,
                            !.after = @ \o Unseen(@, other.after)]
        from == IF other.env = 0 THEN [k \in {} |-> ""] ELSE h[other.env]
    IN  IF DOMAIN from = {} THEN [envs |-> h, svc |-> merged]
        ELSE IF s.env = 0
        THEN [envs |-> Append(h, from), svc |-> [merged EXCEPT !.env = Len(h) + 1]]
        ELSE [envs |-> MergedEnv(h, s.env, from), svc |-> merged]

\* Service.Merge: the fields set in other are written into s; After is
\* appended to; the keys of other's Environment are written into s's map,
\* which is made when s has none; Override is left as it is.
ServiceMerge(h, s, other) ==
    LET merged == [s EXCEPT !.command = IF other.command # "" THEN other.command ELSE @,
                            !.after = @ \o other.after]
        from == IF other.env = 0 THEN [k \in {} |-> ""] ELSE h[other.env]
    IN  IF DOMAIN from = {} THEN [envs |-> h, svc |-> merged]
        ELSE IF s.env = 0
        THEN [envs |-> Append(h, from), svc |-> [merged EXCEPT !.env = Len(h) + 1]]
        ELSE [envs |-> MergedEnv(h, s.env, from), svc |-> merged]

\* CombineLayers, the loop over the services of one layer.
RECURSIVE combineServices(_, _, _, _)
combineServices(h, combined, services, todo) ==
    IF todo = {} THEN [err |-> "", envs |-> h, services |-> combined]
    ELSE LET name == CHOOSE n \in todo : TRUE
             service == services[name]
         IN  IF service.override = MergeOverride /\ name \in DOMAIN combined
             THEN LET copied == ServiceCopy(h, combined[name])
                      merged == ServiceMerge(copied.envs, copied.svc, service)
                  IN  combineServices(merged.envs, Put(combined, name, merged.svc),
                                      services, todo \ {name})
             ELSE IF service.override \in {MergeOverride, ReplaceOverride}
             THEN LET copied == ServiceCopy(h, service)
                  IN  combineServices(copied.envs, Put(combined, name, copied.svc),
                                      services, todo \ {name})
             ELSE [err |-> "format", envs |-> h, services |-> combined]

\* CombineLayers, the checks after the loop: a combined service must define
\* its command.
servicesValid(combined) == \A n \in DOMAIN combined : combined[n].command # ""

\* CombineLayers of the layers so far and one more layer: the loop goes on
\* from the services combined so far; an override that is neither merge nor
\* replace ends the call with a format error.
CombineNextLayer(parts) ==
    /\ svcErr # "format"
    /\ Len(svcLayers) < MaxCombineLayers
    /\ LET new == NewServices(envs, parts, NoServices)
           r == combineServices(new.envs, svcCombined, new.services, DOMAIN parts)
       IN  /\ svcLayers' = Append(svcLayers, new.services)
           /\ envs' = r.envs
           /\ svcCombined' = r.services
           /\ svcErr' = IF r.err # "" THEN r.err
                        ELSE IF ~servicesValid(r.services) THEN "invalid" ELSE ""
    /\ UNCHANGED nonCombVars

NextCombine == \E parts \in ServiceParts : CombineNextLayer(parts)

SpecCombine == Init /\ [][NextCombine]_vars

(***************************************************************************)
(* The pairing section of the plan: SectionExtension.CombineSections with  *)
(* the controller extensions registered.  A controller configuration is a  *)
(* pointer (Nil when the section names no controller) to a duration, in    *)
(* seconds; an OptionalDuration is its Value and IsSet.                    *)
(***************************************************************************)
pairingWindowDuratonDefault == 30

\* The names under which a controller extension is registered; each is a
\* PowerOnControllerExtension.
ControllerTypes == {PowerOnControllerName, "remote"}

Unset == [value |-> 0, isSet |-> FALSE]
Durations == {Unset, [value |-> 60, isSet |-> TRUE], [value |-> 90, isSet |-> TRUE]}

\* The sections ParseSection returns: a section without override defines
\* nothing else.
SectionArgs ==
    {sec \in [override : Overrides, mode : {"", modeSingle},
              type : ControllerTypes \cup {""}, config : {Nil} \cup {Ptr(dur) : dur \in Durations}] :
        /\ (sec.type = "") = (sec.config = Nil)
        /\ sec.override = UnknownOverride => sec.mode = "" /\ sec.type = ""}

\* OptionalDuration.IsZero.
IsZero(o) == ~o.isSet

\* PowerOnControllerConfig.merge: the Value of other's duration is taken
\* when other's is set; IsSet is not written.
PowerOnMerge(c, other) == IF ~IsZero(other) THEN [c EXCEPT !.value = other.value] ELSE c

RECURSIVE mergeConfigs(_, _)
mergeConfigs(c, configs) ==
    IF configs = <<>> THEN c
    ELSE mergeConfigs(PowerOnMerge(c, Deref(Head(configs))), Tail(configs))

\* PowerOnControllerExtension.CombineConfigs: the type assertion on a nil
\* ControllerConfig panics; the default replaces a duration that is not set.
CombineConfigs(configs) ==
    IF \E i \in 1..Len(configs) : configs[i] = Nil THEN [err |-> "panic", config |-> Nil]
    ELSE LET c == mergeConfigs(Unset, configs)
         IN  [err |-> "",
              config |-> Ptr(IF ~c.isSet
                             THEN [value |-> pairingWindowDuratonDefault, isSet |-> TRUE]
                             ELSE c)]

\* PairingConfig.combineManagerConfig over the sections, in order.
RECURSIVE combineManagerConfigs(_, _)
combineManagerConfigs(mode, secs) ==
    IF secs = <<>> THEN [err |-> "", mode |-> mode]
    ELSE LET other == Head(secs)
         IN  IF other.override = MergeOverride
             THEN combineManagerConfigs(IF other.mode # "" THEN other.mode ELSE mode, Tail(secs))
             ELSE IF other.override = ReplaceOverride
             THEN combineManagerConfigs(other.mode, Tail(secs))
             ELSE [err |-> "format", mode |-> mode]

\* checkControllers, the loop: the controller type and the index (from 0)
\* of the first section whose configuration is kept.
RECURSIVE checkFrom(_, _, _, _)
checkFrom(secs, i, controllerType, mergeStart) ==
    IF i > Len(secs) THEN [err |-> "", type |-> controllerType, mergeStart |-> mergeStart]
    ELSE LET sec == secs[i]
             differs == controllerType # "" /\ sec.type # "" /\ controllerType # sec.type
         IN  IF differs /\ sec.override # ReplaceOverride
             THEN [err |-> "merge", type |-> "", mergeStart |-> 0]
             ELSE checkFrom(secs, i + 1,
                            IF sec.type # "" THEN sec.type ELSE controllerType,
                            IF differs THEN i - 1 ELSE mergeStart)

\* checkControllers: with the configurations of sections[mergeStart:].
checkControllers(secs) ==
    LET r == checkFrom(secs, 1, "", 0)
    IN  [err |-> r.err, type |-> r.type,
         configs |-> IF r.err # "" THEN <<>>
                     ELSE [i \in 1..(Len(secs) - r.mergeStart) |-> secs[i + r.mergeStart].config]]

\* SectionExtension.CombineSections.
CombineSections(secs) ==
    LET m == combineManagerConfigs("", secs)
        mode == IF m.mode = "" THEN modeDisabled ELSE m.mode
        c == checkControllers(secs)
        cfg == CombineConfigs(c.configs)
    IN  IF m.err # "" THEN [err |-> m.err, mode |-> "", type |-> "", config |-> Nil]
        ELSE IF c.err # "" THEN [err |-> c.err, mode |-> "", type |-> "", config |-> Nil]
        ELSE IF c.type = "" THEN [err |-> "", mode |-> mode, type |-> "", config |-> Nil]
        ELSE IF cfg.err # "" THEN [err |-> cfg.err, mode |-> "", type |-> "", config |-> Nil]
        ELSE [err |-> "", mode |-> mode, type |-> c.type, config |-> cfg.config]

\* The plan is combined from the sections so far and one more.
CombineSectionsCall(sec) ==
    /\ Len(sections) < MaxSections
    /\ sections' = Append(sections, sec)
    /\ combinedSection' = CombineSections(Append(sections, sec))
    /\ UNCHANGED nonSecVars

NextSections == \E sec \in SectionArgs : CombineSectionsCall(sec)

SpecSections == Init /\ [][NextSections]_vars

(***************************************************************************)
(* Layer.checkCycles on the services of a combined layer.  A service is    *)
(* the sets of names in its Requires, After and Before lists.              *)
(***************************************************************************)
DepNames == {"a", "b", "c"}
DepKinds == {"requires", "after", "before"}

NoDeps == [requires |-> {}, after |-> {}, before |-> {}]

\* order, the first loop with stop false: the names given and all that they
\* require, directly or not.
RECURSIVE Required(_, _)
Required(services, names) ==
    LET more == names \cup UNION {services[n].requires : n \in names \cap DOMAIN services}
    IN  IF more = names THEN names ELSE Required(services, more)

\* The successors built from After alone.
successorsAfterOnly(services, required) ==
    [n \in required |-> services[n].after \cap required]

\* order, the second loop with stop false: the successors of a service are
\* the required services it is after and those that are before it.
successors(services, required) ==
    [n \in required |->
        (services[n].after \cap required)
            \cup {m \in required : n \in services[m].before}]

\* The names reached from the names in `from` along one or more successors.
RECURSIVE Reached(_, _, _)
Reached(succs, from, found) ==
    LET next == found \cup UNION {succs[n] : n \in from \cup found}
    IN  IF next = found THEN found ELSE Reached(succs, from, next)

\* tarjanSort: the strongly connected components of the successors.
tarjanSort(succs) ==
    {{m \in DOMAIN succs : m = n \/ (m \in Reached(succs, {n}, {}) /\ n \in Reached(succs, {m}, {}))} :
        n \in DOMAIN succs}

\* order with stop false, as far as its error goes: a required service that
\* does not exist, or a component of more than one service.
order(services, names) ==
    LET required == Required(services, names)
        loops == {c \in tarjanSort(successors(services, required)) : Cardinality(c) > 1}
    IN  IF ~(required \subseteq DOMAIN services)
        THEN {[err |-> "missing", names |-> required \ DOMAIN services]}
        ELSE IF loops # {} THEN {[err |-> "loop", names |-> c] : c \in loops}
        ELSE {NoCycle}

\* Layer.checkCycles: order of all the services of the layer; with more than
\* one loop the one reported is any of them.
checkCycles(services) == order(services, DOMAIN services)

\* A combined layer gets one more service.
AddService(n) ==
    /\ n \notin DOMAIN depServices
    /\ LET services == Put(depServices, n, NoDeps)
       IN  /\ depServices' = services
           /\ depErr' \in checkCycles(services)
    /\ UNCHANGED nonDepVars

NumDeps(services) ==
    LET Count(n) == Cardinality(services[n].requires) + Cardinality(services[n].after)
                        + Cardinality(services[n].before)
        RECURSIVE Sum(_)
        Sum(S) == IF S = {} THEN 0 ELSE LET n == CHOOSE x \in S : TRUE IN Count(n) + Sum(S \ {n})
    IN  Sum(DOMAIN services)

\* A service of the combined layer names one more service in one of its lists.
AddDependency(n, kind, m) ==
    /\ n \in DOMAIN depServices
    /\ m \notin depServices[n][kind]
    /\ NumDeps(depServices) < MaxDeps
    /\ LET services == [depServices EXCEPT ![n][kind] = @ \cup {m}]
       IN  /\ depServices' = services
           /\ depErr' \in checkCycles(services)
    /\ UNCHANGED nonDepVars

NextCycles ==
    \/ \E n \in DepNames : AddService(n)
    \/ \E n, m \in DepNames : \E kind \in DepKinds : AddDependency(n, kind, m)

SpecCycles == Init /\ [][NextCycles]_vars

(***************************************************************************)
(* The period and the timeout of a health check, in seconds, through       *)
(* CombineLayers: the layers' definitions are combined, then the combined  *)
(* fields are checked and the defaults set.                                *)
(***************************************************************************)
defaultCheckPeriod == 10
defaultCheckTimeout == 3

CheckDurations == {Unset} \cup {[value |-> v, isSet |-> TRUE] : v \in {0, 2, 5, 12}}

CheckArgs == [override : {MergeOverride, ReplaceOverride}, period : CheckDurations,
              timeout : CheckDurations]

\* Check.Merge: the period and the timeout that other sets replace those of c.
CheckMerge(c, other) ==
    [c EXCEPT !.period = IF other.period.isSet THEN other.period ELSE @,
              !.timeout = IF other.timeout.isSet THEN other.timeout ELSE @]

\* CombineLayers, the loop over the checks, for one check name.
RECURSIVE combineChecks(_, _)
combineChecks(combined, layers) ==
    IF layers = <<>> THEN combined
    ELSE LET check == Head(layers)
         IN  combineChecks(IF check.override = MergeOverride /\ combined # Nil
                           THEN Ptr(CheckMerge(Deref(combined), check))
                           ELSE Ptr(check),
                           Tail(layers))

\* CombineLayers of part_001 on a combined check: a period or a timeout that
\* is set must not be zero, a timeout that is set must be less than the
\* period; one that is not set gets the default.
checkedCheck(check) ==
    LET period == IF ~check.period.isSet THEN defaultCheckPeriod ELSE check.period.value
        timeout == IF ~check.timeout.isSet THEN defaultCheckTimeout ELSE check.timeout.value
    IN  IF check.period.isSet /\ check.period.value = 0
        THEN [err |-> "format", period |-> period, timeout |-> timeout]
        ELSE IF check.timeout.isSet /\ check.timeout.value = 0
        THEN [err |-> "format", period |-> period, timeout |-> timeout]
        ELSE IF check.timeout.isSet /\ check.timeout.value >= period
        THEN [err |-> "format", period |-> period, timeout |-> timeout]
        ELSE [err |-> "", period |-> period, timeout |-> timeout]

\* CombineLayers of part_005 on a combined check: the defaults, and a timeout
\* above the period becomes the period; Validate refuses a period or a
\* timeout set to zero.
cappedCheck(check) ==
    LET period == IF ~check.period.isSet THEN defaultCheckPeriod ELSE check.period.value
        timeout == IF ~check.timeout.isSet THEN defaultCheckTimeout ELSE check.timeout.value
    IN  [err |-> IF \/ check.period.isSet /\ check.period.value = 0
                    \/ check.timeout.isSet /\ check.timeout.value = 0
                 THEN "format" ELSE "",
         period |-> period,
         timeout |-> IF timeout > period THEN period ELSE timeout]

\* The plan is combined from the layers so far and one more that defines the check.
CombineChecks(check) ==
    /\ Len(chkLayers) < MaxCheckLayers
    /\ chkLayers' = Append(chkLayers, check)
    /\ LET combined == Deref(combineChecks(Nil, Append(chkLayers, check)))
       IN  chkCombined' = [checked |-> Ptr(checkedCheck(combined)),
                           capped |-> Ptr(cappedCheck(combined))]
    /\ UNCHANGED nonChkVars

NextChecks == \E check \in CheckArgs : CombineChecks(check)

SpecChecks == Init /\ [][NextChecks]_vars

(***************************************************************************)
(* The refresh Change (fwstate.Refresh, localRefreshRequest) and the task  *)
(* runner on its three tasks.                                              *)
(***************************************************************************)
\* fwstate.Refresh with Upload true: three new tasks in a task set; no task
\* is told to wait for another.
Refresh == [tasks |-> RefreshKinds, waitTasks |-> {}]

\* localRefreshRequest: the tasks of Refresh are added to a new Change, with
\* status Do.
localRefreshRequest(c) ==
    /\ \A k \in RefreshKinds : refStatus[c][k] = ""
    /\ refStatus' = [refStatus EXCEPT ![c] = [k \in RefreshKinds |->
                                                IF k \in Refresh.tasks THEN "Do" ELSE ""]]
    /\ refWaitTasks' = [refWaitTasks EXCEPT ![c] = Refresh.waitTasks]
    /\ UNCHANGED nonRefVars

\* TaskRunner.Ensure starts an eligible task: its status is Do, every task
\* it waits for is Done, and no task of its lane has failed.
RefreshEnsureDo(c, k) ==
    /\ refStatus[c][k] = "Do"
    /\ \A w \in RefreshKinds : <<k, w>> \in refWaitTasks[c] => refStatus[c][w] = "Done"
    /\ \A j \in RefreshKinds : refStatus[c][j] # "Error"
    /\ refStatus' = [refStatus EXCEPT ![c][k] = "Doing"]
    /\ UNCHANGED <<refWaitTasks, nonRefVars>>

\* The do handler returns: nil makes the task Done; an error makes it Error,
\* the tasks of the lane not yet started Abort and its Done tasks Undo.
RefreshDoReturns(c, k) ==
    /\ refStatus[c][k] = "Doing"
    /\ \E ok \in BOOLEAN :
          refStatus' = [refStatus EXCEPT ![c] =
                        [j \in RefreshKinds |->
                            IF ok THEN (IF j = k THEN "Done" ELSE refStatus[c][j])
                            ELSE IF j = k THEN "Error"
                            ELSE IF refStatus[c][j] = "Do" THEN "Abort"
                            ELSE IF refStatus[c][j] = "Done" THEN "Undo"
                            ELSE refStatus[c][j]]]
    /\ UNCHANGED <<refWaitTasks, nonRefVars>>

\* The undo handler of a task scheduled for undo runs and returns.
RefreshUndo(c, k) ==
    /\ refStatus[c][k] = "Undo"
    /\ \A h \in RefreshKinds :
          <<h, k>> \in refWaitTasks[c] => refStatus[c][h] \notin {"Doing", "Done", "Undo"}
    /\ refStatus' = [refStatus EXCEPT ![c][k] = "Undone"]
    /\ UNCHANGED <<refWaitTasks, nonRefVars>>

NextRefresh ==
    \E c \in Changes :
        \/ localRefreshRequest(c)
        \/ \E k \in RefreshKinds :
              RefreshEnsureDo(c, k) \/ RefreshDoReturns(c, k) \/ RefreshUndo(c, k)

SpecRefresh == Init /\ [][NextRefresh]_vars

(***************************************************************************)
(* The changed-part list that Load, AppendLayer and UpdateLayer return and *)
(* PlanManager.notify hands to the subscribers.  The plan has one part.    *)
(***************************************************************************)
PartNames == {"x"}

\* Part.IsNonEmpty: the part holds at least one entry.
IsNonEmpty(part) == DOMAIN part # {}

\* Layer.NonEmptyParts: the names of the parts of the layer that hold entries.
NonEmptyParts(parts) == IF IsNonEmpty(parts) THEN <<"x">> ELSE <<>>

\* Plan.Load with the list it returns: the non-empty parts of the combined
\* layer it published, nil on an error and when there is no directory.
LoadChanged ==
    /\ \E disk \in DiskStates :
          LET r == PlanLoad(Layers, Combined, disk)
          IN  /\ Apply("Load", r)
              /\ changedParts' = IF r.pub THEN NonEmptyParts(Deref(r.combined)) ELSE <<>>
    /\ UNCHANGED nonPubVars

\* Plan.AppendLayer with the list it returns: the non-empty parts of the
\* layer it was given, nil on an error.
AppendLayerChanged ==
    /\ \E layer \in LayerArgs :
          LET r == PlanAppendLayer(Layers, Combined, layer)
          IN  /\ Apply("AppendLayer", r)
              /\ changedParts' = IF r.err = "" THEN NonEmptyParts(layer.parts) ELSE <<>>
    /\ UNCHANGED nonPubVars

\* Plan.UpdateLayer with the list it returns: the non-empty parts of the
\* layer it was given, nil on an error.
UpdateLayerChanged ==
    /\ \E layer \in LayerArgs :
          LET r == PlanUpdateLayer(Layers, Combined, layer)
          IN  /\ Apply("UpdateLayer", r)
              /\ changedParts' = IF r.err = "" THEN NonEmptyParts(layer.parts) ELSE <<>>
    /\ UNCHANGED nonPubVars

NextChanged == LoadChanged \/ AppendLayerChanged \/ UpdateLayerChanged

SpecChanged == Init /\ [][NextChanged]_vars

(***************************************************************************)
(* Properties of the plan.                                                 *)
(***************************************************************************)

\* C1: a call of Load, AppendLayer or UpdateLayer that returns an error leaves
\* the layer list and the published combined plan exactly as they were.
C1_FailedCallPublishesNothing ==
    [][planErr' # "" => (Layers' = Layers /\ Combined' = Combined)]_vars

\* C2: once a call on the plan has succeeded, and after every later call,
\* successful or failed, the published combined plan is the combination from
\* scratch of the current layer list.
C2_PublishedIsCombineOfLayers ==
    (Combined # Nil \/ (planOp # "new" /\ planErr = "")) =>
        /\ Combined # Nil
        /\ ~combineLayers(Layers).err
        /\ Deref(Combined) = combineLayers(Layers).parts

(***************************************************************************)
(* Properties of the plan manager.                                         *)
(***************************************************************************)

\* The invocations a publish owes the subscribers: each registered
\* subscriber once, in registration order, with the published plan.
OwedFanout == [i \in 1..Len(handlers) |-> [sub |-> handlers[i], plan |-> Combined]]

\* C6: a manager call that published a combined plan has, when it returns,
\* invoked every registered subscriber exactly once, in registration order,
\* with the published plan; a call that published nothing invoked none.
C6_PublishNotifiesEverySubscriber ==
    \A t \in Threads :
        pc[t] = "unlock" =>
            IF res[t].pub /\ res[t].err = ""
            THEN fanout[t] = OwedFanout
            ELSE fanout[t] = <<>>

\* A call in progress can take a step.
SomeCallCanStep == \E t \in Threads : MgrStep(t)

\* C8: StartUp always returns: while a StartUp call is in progress some call
\* in progress can take a step, so the call is never stuck for good.
C8_StartUpReturns ==
    (\E t \in Threads : op[t] = "StartUp" /\ pc[t] # "idle") => ENABLED SomeCallCanStep

\* C9: Plan() never returns a missing combined plan.
C9_PlanNeverReturnsNil ==
    \A t \in Threads : (op[t] = "Plan" /\ pc[t] = "unlock") => res[t].plan # Nil

\* The threads that are reading or writing the subscriber list.
TouchingHandlers == {t \in Threads : pc[t] \in {"read", "write", "notify1", "notify"}}

\* The threads that are inside a fan-out.
InFanout == {t \in Threads : pc[t] \in {"notify1", "notify"}}

\* C7: the subscriber list is read and written only by a thread that holds
\* the plan lock, at most one fan-out is in progress at a time, and a fan-out
\* hands every subscriber the plan that was published last.
C7_HandlersOnlyUnderPlanLock ==
    /\ \A t \in TouchingHandlers : mu = t
    /\ Cardinality(InFanout) <= 1
    /\ \A t \in InFanout : \A i \in 1..Len(fanout[t]) : fanout[t][i].plan = Combined

(***************************************************************************)
(* Properties of the state lock and of Unlock.                             *)
(***************************************************************************)
\* The threads that leave Unlock by returning in this step.
Returning == {t \in Threads : stPc[t] \in {"locked", "checkpoint"} /\ stPc'[t] = "idle"}

\* C3: Unlock returns normally only if the state was unmodified, or there is
\* no backend, or the backend said no checkpoint is needed, or a Checkpoint
\* was acknowledged; a failed Checkpoint is retried after the retry interval
\* while the maximum retry time is not exceeded, and after that Unlock panics;
\* modified is cleared only with an acknowledged checkpoint or when none is
\* needed, and it is still set when Unlock panics.
C3_UnlockReturnsOnlyCheckpointed ==
    [][\A t \in Threads :
        /\ t \in Returning =>
              \/ ~modified
              \/ backend = "nil"
              \/ ~needsCheckpoint'
              \/ ckpts' = Append(ckpts, [ticket |-> ticket[t], data |-> ser[t]])
        /\ (stPc[t] = "checkpoint" /\ since'[t] # since[t] /\ stPc'[t] = "checkpoint") =>
              /\ since[t] <= unlockCheckpointRetryMaxTime
              /\ since'[t] = since[t] + unlockCheckpointRetryInterval
              /\ modified' /\ ckpts' = ckpts
        /\ (stPc[t] = "checkpoint" /\ Len(ckpts') > Len(ckpts)) =>
              since[t] <= unlockCheckpointRetryMaxTime
        /\ (stPc[t] = "checkpoint" /\ stPc'[t] = "panicked") =>
              /\ since[t] > unlockCheckpointRetryMaxTime
              /\ modified' /\ ckpts' = ckpts /\ panicked' = CheckpointPanic
        /\ (modified /\ ~modified') =>
              \/ ~needsCheckpoint'
              \/ Len(ckpts') = Len(ckpts) + 1
    ]_vars

\* Unlock has panicked after retrying for the maximum retry time.
C3_Witness ==
    /\ panicked = CheckpointPanic
    /\ modified
    /\ \E t \in Threads : stPc[t] = "panicked"

\* C4: from the serialisation of the state to the acknowledgement of its
\* checkpoint the serialising thread holds the lock, no other thread is
\* inside the lock and the state is the one serialised; the acknowledged
\* snapshots are in the order in which their threads acquired the lock.
C4_LockHeldUntilAcknowledged ==
    /\ \A t \in Threads : stPc[t] = "checkpoint" =>
          /\ stateMu = t
          /\ muC = 1
          /\ data = ser[t]
          /\ \A u \in Threads \ {t} : stPc[u] \notin {"locked", "checkpoint"}
    /\ \A i, j \in 1..Len(ckpts) : i < j => ckpts[i].ticket < ckpts[j].ticket

\* A checkpoint is being retried while another thread waits for the lock,
\* after an earlier snapshot was acknowledged.
C4_Witness ==
    /\ \E t, u \in Threads :
          /\ stPc[t] = "checkpoint" /\ since[t] > 0
          /\ stPc[u] = "waiting"
    /\ Len(ckpts) >= 1

\* C5: every read or mutation of the state by a thread that does not hold
\* the state lock panics with "accessing state without lock", whether or not
\* another thread holds the lock.
C5_UnlockedAccessPanics ==
    lastAccess # NoAccess => panicked = AccessPanic

(***************************************************************************)
(* Properties of the tasks of a Change.                                    *)
(***************************************************************************)
\* C10: a task that waits for another task does not start its do handler
\* (leave Do for Doing) until the task it waits for is Done; in a revert
\* Change boot-state-change does not start before bootloader-cfg-change is
\* Done.
C10_WaitForObserved ==
    [][\A c \in Changes :
        /\ \A k \in Kinds : \A w \in WaitsFor(c, k) :
              (status[c][k] = "Do" /\ status'[c][k] \notin {"Do", "Abort"}) =>
                  status[c][w] = "Done"
        /\ (status[c]["boot-state-change"] = "Do" /\ status'[c]["boot-state-change"] = "Doing") =>
              status[c]["bootloader-cfg-change"] = "Done"
    ]_vars

\* boot-state-change of a revert Change is running.
C10_Witness ==
    \E c \in Changes : status[c]["boot-state-change"] = "Doing"

\* The runner has nothing left to do or to wait for in Change c.
Quiesced(c) ==
    \A k \in Kinds : status[c][k] \notin {"", "Do", "Doing", "Undo", "Undoing"}

\* Change.IsReady and Change.Status of a Change whose tasks have all ended.
ChangeReady(c) == \A k \in Kinds : status[c][k] \in {"Done", "Undone", "Error", "Hold", "Abort"}
ChangeStatus(c) ==
    IF \E k \in Kinds : status[c][k] = "Error" THEN "Error"
    ELSE IF \E k \in Kinds : status[c][k] = "Hold" THEN "Hold"
    ELSE IF \E k \in Kinds : status[c][k] = "Undone" THEN "Undone"
    ELSE "Done"

AccessorStep(t, a) ==
    /\ pairCalls' = pairCalls + 1
    /\ plocal'[t].call = pairCalls'
    /\ plocal'[t].acc = a

\* C12: EnablePairing succeeds, opening the window, exactly when the window is
\* closed and the mode is multiple, or single with the device not paired yet;
\* otherwise it returns an error and leaves the window as it was.
\* DisablePairing succeeds, closing the window, exactly when the window is
\* open; otherwise it returns an error and the window stays closed.
C12_WindowIsTwoStateMachine ==
    [][\A t \in Threads :
          /\ AccessorStep(t, "enable") =>
                LET allowed == /\ ~windowOpen
                               /\ \/ pmConfig = modeMultiple
                                  \/ pmConfig = modeSingle /\ ~isPaired
                IN  /\ (plocal'[t].err = "") <=> allowed
                    /\ allowed => windowOpen'
                    /\ ~allowed => windowOpen' = windowOpen
          /\ AccessorStep(t, "disable") =>
                /\ (plocal'[t].err = "") <=> windowOpen
                /\ ~windowOpen'
      ]_vars

C12_Witness ==
    \E t \in Threads :
        /\ plocal[t].acc = "enable"
        /\ plocal[t].err = "already paired"
        /\ pmConfig = modeSingle
        /\ isPaired
        /\ ~windowOpen

\* C13: when PlanChanged finds the pairing window open and a controller in
\* place, it closes the window and tells the controller PairingDisabled
\* exactly when the mode, the controller type or the controller configuration
\* of the new plan differs from the one in force, and it gets past that
\* decision without failing.
C13_ClosedIffConfigDiffers ==
    \A t \in Threads :
        (/\ ppc[t] \in {"pc-apply", "panicked"}
         /\ plocal[t].ensEnd = ""
         /\ plocal[t].wasOpen
         /\ controller # "") =>
            /\ ppc[t] = "pc-apply"
            /\ plocal[t].closed <=> plocal[t].differs
            /\ plocal[t].closed => ~windowOpen

\* C14: the process does not fail, and whenever a call on the pairing manager
\* or its controller is in progress some call in progress can take its next
\* step: no set of parties waits for each other's locks.
C14_NoDeadlock ==
    /\ pairPanic = ""
    /\ (\E t \in Threads : ppc[t] # "idle") => ENABLED PairProgress

\* C15: a call of EnsureConfig with a configuration returns; made less than
\* powerOnBootExpiry after boot it has opened the window (or EnablePairing
\* refused) and the timer runs; made later it has not opened the window.
C15_PowerOnOpensOnlyEarly ==
    \A t \in Threads :
        (plocal[t].ensArg = "cfg" /\ plocal[t].ensEnd # "") =>
            /\ plocal[t].ensEnd = "returned"
            /\ IF plocal[t].early
               THEN \/ plocal[t].opened /\ timer = "running"
                    \/ plocal[t].err # ""
               ELSE ~plocal[t].opened

\* C16: a call of EnsureConfig(nil) returns having started no timer and
\* opened no window, with the timer stopped if there was one.
C16_NilShutsDown ==
    \A t \in Threads :
        (plocal[t].ensArg = "nil" /\ plocal[t].ensEnd # "") =>
            /\ plocal[t].ensEnd = "returned"
            /\ ~plocal[t].opened
            /\ timer # "running"

(***************************************************************************)
(* Properties of the firmware upload.                                      *)
(***************************************************************************)

\* C17: every HTTP upload handler that has deposited its request and waits on
\* its Done channel eventually receives a result and returns.
C17_HandlerEventuallyReturns ==
    \A h \in UpHandlers : (hPc[h] = "waiting") ~> (hPc[h] = "returned")

(***************************************************************************)
(* Properties of State.Prune.                                              *)
(***************************************************************************)

\* The part of the state Prune works on.
Pruned ==
    [changes |-> changes, tasks |-> tasks, notices |-> notices,
     latestWarningTime |-> latestWarningTime]

\* C18: once Prune has returned, a second call with the same arguments at the
\* same time leaves the changes, tasks, notices and the cached warning time as
\* the first call left them.
C18_PruneIdempotent ==
    pruned.done =>
        PruneResults(changes, tasks, notices, pendingChangeByAttr, pruned.args, clock)
            = {Pruned}

\* The changes that were ready when Prune was called, and those that are now.
WasReady == {c \in PruneChangeIds : pruned.changes[c].live /\ pruned.changes[c].ready # 0}
IsReady == {c \in PruneChangeIds : changes[c].live /\ changes[c].ready # 0}

\* The ready changes Prune found that became ready more than pruneWait ago.
WasOld == {c \in WasReady : pruned.changes[c].ready < clock - pruned.args.pruneWait}

\* Every change that became ready more than pruneWait ago is gone with its
\* task, and a ready change that is gone without being that old became ready
\* no later than every ready change that was kept.
OldGoneOldestFirst ==
    /\ \A c \in WasOld : ~changes[c].live /\ ~tasks[c].live
    /\ \A c \in WasReady \ WasOld :
          ~changes[c].live =>
              /\ ~tasks[c].live
              /\ \A d \in WasReady :
                    changes[d].live => pruned.changes[c].ready <= pruned.changes[d].ready

WasUnready == {c \in PruneChangeIds : pruned.changes[c].live /\ pruned.changes[c].ready = 0}
WasVetoed ==
    {c \in WasUnready :
        \E attr \in pendingChangeByAttr :
            pruned.changes[c].attr = attr /\ pruned.changes[c].pend}

\* The lanes of change c have been aborted: its task is neither waiting to
\* start nor running untold.
LanesAborted(c) == tasks[c].live => tasks[c].status \notin {"Do", "Doing"}

Untouched(c) == changes[c] = pruned.changes[c] /\ tasks[c] = pruned.tasks[c]

SpawnUsed(c) ==
    IF pruned.changes[c].spawn < pruned.args.startOfOperation
    THEN pruned.args.startOfOperation
    ELSE pruned.changes[c].spawn

WasNotice == {k \in NoticeKeys : pruned.notices[k].live}
IsNotice == {k \in NoticeKeys : notices[k].live}
Kept ==
    {k \in WasNotice :
        /\ ~expired(pruned.notices[k], clock)
        /\ k # 0 => changes[k].live}

\* C21: after Prune no remaining notice is expired, no remaining
\* change-update notice refers to a change that is not in the state, at most
\* maxNotices notices remain, and the notices evicted to meet that cap, no
\* more of them than the cap requires, occurred last no later than every
\* notice that remains.
C21_NoticesPruned ==
    pruned.done =>
        /\ IsNotice \subseteq Kept
        /\ \A k \in IsNotice : notices[k] = pruned.notices[k]
        /\ Cardinality(IsNotice) <= pruned.args.maxNotices
        /\ Kept # IsNotice => Cardinality(IsNotice) = pruned.args.maxNotices
        /\ \A k \in Kept \ IsNotice : \A j \in IsNotice :
              pruned.notices[k].lastOccurred <= notices[j].lastOccurred

C21_Witness ==
    /\ pruned.done
    /\ \E k \in Kept \ IsNotice : \E j \in IsNotice :
          pruned.notices[k].lastOccurred < notices[j].lastOccurred

(***************************************************************************)
(* Properties of the ids and of the state read back.                       *)
(***************************************************************************)

\* The ids of a kind were handed out in increasing order, none above last.
Increasing(ids, last) ==
    /\ \A i, j \in DOMAIN ids : i < j => ids[i] < ids[j]
    /\ \A i \in DOMAIN ids : ids[i] \in 1..last

\* Every id in the state is at most its counter, and no two tasks share one.
IdsWithinCounters ==
    /\ \A c \in PruneChangeIds : changes[c].live => c <= lastChangeId
    /\ \A t \in PruneTaskIds : tasks[t].live => taskIds[t] \in 1..lastTaskId
    /\ \A t, u \in PruneTaskIds :
          tasks[t].live /\ tasks[u].live /\ t # u => taskIds[t] # taskIds[u]
    /\ \A t \in PruneTaskIds : \A l \in lanes[t] : l \in 1..lastLaneId

\* C22: the change, task and lane counters never decrease while a State is in
\* use, and a State read back starts from the counters that were saved; the
\* ids were handed out in increasing order, so none twice, and every id in
\* the state is at most its counter, also after Prune and after reading back.
C22_IdsNeverReused ==
    [][/\ self' = self =>
            /\ lastChangeId' >= lastChangeId
            /\ lastTaskId' >= lastTaskId
            /\ lastLaneId' >= lastLaneId
       /\ self' # self =>
            /\ lastChangeId' = Deref(saved).state.lastChangeId
            /\ lastTaskId' = Deref(saved).state.lastTaskId
            /\ lastLaneId' = Deref(saved).state.lastLaneId
       /\ Increasing(issued.change, lastChangeId)'
       /\ Increasing(issued.task, lastTaskId)'
       /\ Increasing(issued.lane, lastLaneId)'
       /\ IdsWithinCounters']_vars

C22_Witness ==
    /\ self = 2
    /\ \E c, d \in PruneChangeIds :
          /\ c < d
          /\ c <= Deref(saved).state.lastChangeId
          /\ ~Deref(saved).state.changes[c].live
          /\ changes[d].live
          /\ bound.changes[d] = 2

\* C23: the State that ReadState makes of the JSON of a State holds the data,
\* the changes, the tasks with their ids and lanes, the notices, the
\* identities and the four counters of the State that was serialised; every
\* change and every task it holds points to it; its cache, its handlers and
\* its pending predicates are empty and it is not modified.
C23_ReadBackEqualsSaved ==
    self = 2 =>
        /\ Persistent = Deref(saved).state
        /\ \A c \in PruneChangeIds : changes[c].live => bound.changes[c] = self
        /\ \A t \in PruneTaskIds : tasks[t].live => bound.tasks[t] = self
        /\ cache = {}
        /\ taskHandlers = {}
        /\ changeHandlers = {}
        /\ pendingChangeByAttr = {}
        /\ modified = FALSE

C23_Witness ==
    /\ self = 2
    /\ Deref(saved).transient.modified
    /\ Deref(saved).transient.cache # {}
    /\ Deref(saved).transient.pendingChangeByAttr # {}
    /\ lastChangeId > MaxPruneChanges
    /\ \E c \in PruneChangeIds : changes[c].live /\ tasks[c].live /\ lanes[c] # {}
    /\ \E c \in PruneChangeIds : ~changes[c].live
    /\ tasks[0].live
    /\ notices[0].live
    /\ \E n \in IdentityNames : identities[n] # Nil /\ Deref(identities[n]).Basic # Nil

(***************************************************************************)
(* Properties of AppendLayer and UpdateLayer.                              *)
(***************************************************************************)

\* Thread t takes the step of its call of method o in which the plan is
\* called; the layer it supplied is then in its result.
PlanCallStep(t, o) == pc[t] = "body" /\ op[t] = o /\ pc'[t] # "body"

\* The layer thread t supplied, and the layer as t holds it after the call.
Given(t) == Deref(res[t].arg).given
Held(t) == Deref(res[t].arg).now

HasLabel(layers, label) == \E i \in 1..Len(layers) : layers[i].label = label

\* C24: AppendLayer of a layer whose label is in the layer list returns
\* LabelExists and leaves the layer list, the combined plan and the order of
\* the supplied layer as they were; the call invokes no subscriber.
C24_AppendExistingLabelFails ==
    [][\A t \in Threads :
          /\ (PlanCallStep(t, "AppendLayer") /\ HasLabel(Layers, Given(t)'.label)) =>
                /\ res'[t].err = "exists"
                /\ Layers' = Layers
                /\ Combined' = Combined
                /\ Held(t)' = Given(t)'
                /\ pc'[t] = "unlock"
          /\ (op'[t] = "AppendLayer" /\ res'[t].err = "exists") => fanout'[t] = <<>>]_vars

C24_Witness ==
    \E t \in Threads :
        /\ op[t] = "AppendLayer"
        /\ pc[t] = "idle"
        /\ res[t].err = "exists"
        /\ Given(t).order = 7
        /\ Len(handlers) > 0
        /\ Len(Layers) > 0

\* C25: a successful AppendLayer adds the supplied layer at the end of the
\* layer list, above the layers that were there, with the order of the layer
\* that was last plus one, or 1 in an empty list, whatever order it was
\* supplied with, and the caller holds the layer with that order; a failed
\* AppendLayer leaves the supplied layer's order as it was.
C25_AppendPlacesLast ==
    [][\A t \in Threads :
          PlanCallStep(t, "AppendLayer") =>
             IF res'[t].err = ""
             THEN /\ Len(Layers') = Len(Layers) + 1
                  /\ \A i \in 1..Len(Layers) : Layers'[i] = Layers[i]
                  /\ Layers'[Len(Layers')] = Held(t)'
                  /\ Held(t)' = [Given(t)' EXCEPT !.order =
                        IF Len(Layers) > 0 THEN Layers[Len(Layers)].order + 1 ELSE 1]
             ELSE /\ Held(t)' = Given(t)'
                  /\ Layers' = Layers]_vars

C25_Witness ==
    \E t \in Threads :
        /\ op[t] = "AppendLayer"
        /\ pc[t] = "idle"
        /\ res[t].err = ""
        /\ Given(t).order = 7
        /\ Held(t).order = 2
        /\ Layers[Len(Layers)] = Held(t)

\* C26: UpdateLayer of a layer whose label is not in the layer list returns
\* LabelMissing and leaves the layer list and the combined plan as they were;
\* the call invokes no subscriber.
C26_UpdateMissingLabelFails ==
    [][\A t \in Threads :
          /\ (PlanCallStep(t, "UpdateLayer") /\ ~HasLabel(Layers, Given(t)'.label)) =>
                /\ res'[t].err = "missing"
                /\ Layers' = Layers
                /\ Combined' = Combined
                /\ pc'[t] = "unlock"
          /\ (op'[t] = "UpdateLayer" /\ res'[t].err = "missing") => fanout'[t] = <<>>]_vars

C26_Witness ==
    \E t \in Threads :
        /\ op[t] = "UpdateLayer"
        /\ pc[t] = "idle"
        /\ res[t].err = "missing"
        /\ Len(handlers) > 0
        /\ Len(Layers) > 0
        /\ ~HasLabel(Layers, Given(t).label)

\* C27: a successful UpdateLayer leaves the layer list with the layers it had,
\* but for the layer of the supplied label, which keeps its place, its order
\* and its label and holds the combination of what it held and the supplied
\* layer; the combined plan is the combination of the new list in its order,
\* so the layers above the updated one still apply on top of it.
C27_UpdateReplacesInPlace ==
    [][\A t \in Threads :
          (PlanCallStep(t, "UpdateLayer") /\ res'[t].err = "") =>
             \E index \in 1..Len(Layers) :
                /\ Layers[index].label = Given(t)'.label
                /\ Len(Layers') = Len(Layers)
                /\ \A i \in 1..Len(Layers) : i # index => Layers'[i] = Layers[i]
                /\ Layers'[index].order = Layers[index].order
                /\ Layers'[index].label = Layers[index].label
                /\ Layers'[index].parts =
                      combineLayers(<<Layers[index], Given(t)'>>).parts
                /\ Combined' = Ptr(combineLayers(Layers').parts)]_vars

C27_Witness ==
    \E t \in Threads :
        /\ op[t] = "UpdateLayer"
        /\ pc[t] = "idle"
        /\ res[t].err = ""
        /\ Len(Layers) = 2
        /\ Layers[1].label = Given(t).label
        /\ Layers[1].parts # Given(t).parts
        /\ Layers[2].parts # newLayer
        /\ Deref(Combined) # Layers[1].parts

\* The labels of the layer list are pairwise distinct and its orders increase.
LayersOrdered(layers) ==
    /\ \A i, j \in 1..Len(layers) : i # j => layers[i].label # layers[j].label
    /\ \A i, j \in 1..Len(layers) : i < j => layers[i].order < layers[j].order

\* C28: in every state of the plan the layer list holds pairwise distinct
\* labels and strictly increasing orders.
C28_LabelsDistinctOrdersIncrease == LayersOrdered(Layers)

C28_Witness ==
    /\ planOp = "AppendLayer"
    /\ planErr = ""
    /\ Len(Layers) = 2
    /\ Layers[1].order = 2
    /\ Layers[2].order = 3

\* A service as a value: its fields, with the content of its Environment.
ServiceValue(h, s) ==
    [override |-> s.override, command |-> s.command, after |-> s.after,
     environment |-> IF s.env = 0 THEN Nil ELSE Ptr(h[s.env])]

\* The Environment that holds the keys of lower and, over them, those of upper.
Overlay(lower, upper) ==
    IF upper = Nil \/ DOMAIN Deref(upper) = {} THEN lower
    ELSE IF lower = Nil THEN upper
    ELSE Ptr([k \in DOMAIN Deref(lower) \cup DOMAIN Deref(upper) |->
                 IF k \in DOMAIN Deref(upper) THEN Deref(upper)[k] ELSE Deref(lower)[k]])

\* No layer holds the Environment map of the combined service n.
OwnEnv(layers, combined, n) ==
    combined[n].env # 0 =>
        \A i \in 1..Len(layers) : \A m \in DOMAIN layers[i] :
            layers[i][m].env # combined[n].env

\* C29: when the next layer up is combined, a service with override merge
\* whose name the combined services already hold becomes a copy of the
\* combined service with the set fields of the layer's service applied on
\* top; a service with override merge whose name is not held yet, and a
\* service with override replace, becomes a copy of the layer's service
\* alone.  The services the layers hold stay as they were.
C29_CombineMergesOrReplaces ==
    [][(Len(svcLayers') = Len(svcLayers) + 1 /\ svcErr' # "format") =>
          LET layer == svcLayers'[Len(svcLayers')]
          IN  /\ \A n \in DOMAIN layer :
                    LET later == ServiceValue(envs', layer[n])
                        result == ServiceValue(envs', svcCombined'[n])
                    IN  /\ IF layer[n].override = MergeOverride /\ n \in DOMAIN svcCombined
                           THEN LET acc == ServiceValue(envs, svcCombined[n])
                                IN  /\ result.command = IF later.command # ""
                                                        THEN later.command ELSE acc.command
                                    /\ result.after = acc.after \o later.after
                                    /\ result.environment =
                                          Overlay(acc.environment, later.environment)
                                    /\ result.override = acc.override
                                    /\ svcCombined'[n].env # 0 =>
                                          svcCombined'[n].env # svcCombined[n].env
                           ELSE result = later
                        /\ OwnEnv(svcLayers', svcCombined', n)
              /\ \A n \in DOMAIN svcCombined \ DOMAIN layer :
                    ServiceValue(envs', svcCombined'[n]) = ServiceValue(envs, svcCombined[n])
              /\ \A i \in 1..Len(svcLayers) : \A n \in DOMAIN svcLayers[i] :
                    ServiceValue(envs', svcLayers'[i][n]) = ServiceValue(envs, svcLayers[i][n])]_vars

C29_Witness ==
    /\ Len(svcLayers) = 2
    /\ svcErr = ""
    /\ "svc" \in DOMAIN svcLayers[1]
    /\ "svc" \in DOMAIN svcLayers[2]
    /\ svcLayers[2]["svc"].override = MergeOverride
    /\ svcLayers[2]["svc"].command = ""
    /\ svcCombined["svc"].command = "c1"
    /\ svcLayers[1]["svc"].env # 0
    /\ svcLayers[2]["svc"].env # 0
    /\ envs[svcLayers[1]["svc"].env] # envs[svcLayers[2]["svc"].env]
    /\ envs[svcCombined["svc"].env] = envs[svcLayers[2]["svc"].env]

\* The After lists of the layers that contribute to service n among the
\* lowest k layers, one after the other from the lowest: the layers from the
\* topmost that replaces the service, or from the first that defines it, upwards.
RECURSIVE Contributed(_, _, _)
Contributed(layers, n, k) ==
    IF k = 0 THEN <<>>
    ELSE IF n \notin DOMAIN layers[k] THEN Contributed(layers, n, k - 1)
    ELSE IF layers[k][n].override = ReplaceOverride THEN layers[k][n].after
    ELSE Contributed(layers, n, k - 1) \o layers[k][n].after

\* C30: the After list of a combined service is the concatenation of the
\* After lists of the layers that contribute to it, in ascending layer
\* order, every value as often as the layers hold it.
C30_MergedListIsConcatenation ==
    svcErr # "format" =>
        \A n \in DOMAIN svcCombined :
            svcCombined[n].after = Contributed(svcLayers, n, Len(svcLayers))

C30_Witness ==
    /\ Len(svcLayers) = 2
    /\ svcErr = ""
    /\ "svc" \in DOMAIN svcLayers[1]
    /\ "svc" \in DOMAIN svcLayers[2]
    /\ svcLayers[2]["svc"].override = MergeOverride
    /\ svcLayers[1]["svc"].after = <<"a">>
    /\ svcLayers[2]["svc"].after = <<"b", "a">>
    /\ svcCombined["svc"].after = <<"a", "b", "a">>

\* The controller type the lowest k sections establish: that of the topmost
\* of them that names one.
RECURSIVE Established(_, _)
Established(secs, k) ==
    IF k = 0 THEN ""
    ELSE IF secs[k].type # "" THEN secs[k].type
    ELSE Established(secs, k - 1)

\* Section i names a controller type other than the one established below it.
ChangesType(secs, i) ==
    /\ secs[i].type # ""
    /\ Established(secs, i - 1) # ""
    /\ Established(secs, i - 1) # secs[i].type

ValidOverrides(secs) ==
    \A i \in 1..Len(secs) : secs[i].override \in {MergeOverride, ReplaceOverride}

\* C31: sections of valid override in which a section changes the controller
\* type without override replace do not combine; when every section that
\* changes the type has override replace and one does, they combine, and the
\* combined controller type is that of the topmost section that names one.
C31_TypeChangeNeedsReplace ==
    ValidOverrides(sections) =>
        /\ (\E i \in 1..Len(sections) :
               ChangesType(sections, i) /\ sections[i].override # ReplaceOverride)
              => combinedSection.err # ""
        /\ ((\E i \in 1..Len(sections) : ChangesType(sections, i))
            /\ \A i \in 1..Len(sections) :
                  ChangesType(sections, i) => sections[i].override = ReplaceOverride)
              => /\ combinedSection.err = ""
                 /\ combinedSection.type = Established(sections, Len(sections))

\* The duration of the topmost of the lowest k sections that sets one, from
\* the topmost section that changes the controller type upwards; Unset if none.
RECURSIVE HighestSet(_, _)
HighestSet(secs, k) ==
    IF k = 0 THEN Unset
    ELSE IF secs[k].config # Nil /\ Deref(secs[k].config).isSet THEN Deref(secs[k].config)
    ELSE IF ChangesType(secs, k) THEN Unset
    ELSE HighestSet(secs, k - 1)

\* C39: the combined controller configuration carries the duration of the
\* highest section that sets one, and the default only when none sets one.
C39_HighestDurationWins ==
    (combinedSection.err = "" /\ combinedSection.type # "") =>
        LET set == HighestSet(sections, Len(sections))
        IN  Deref(combinedSection.config).value =
               IF set.isSet THEN set.value ELSE pairingWindowDuratonDefault

\* C32: a Load that finds no layers sub-directory succeeds and leaves a valid
\* empty plan: no layer, a combined layer that holds every part, empty, and
\* Part succeeds.
C32_MissingDirGivesEmptyPlan ==
    [][Apply("Load", PlanLoad(Layers, Combined, Missing)) =>
          /\ planErr' = ""
          /\ Combined' # Nil
          /\ Deref(Combined') = newLayer
          /\ Part(Combined') = ""]_vars

\* The sequences of distinct service names.
DepPaths ==
    {c \in UNION {[1..k -> DepNames] : k \in 1..Cardinality(DepNames)} :
        \A i, j \in 1..Len(c) : i # j => c[i] # c[j]}

\* Service a requires b, is after b, or b is before a.
DependsOn(a, b) ==
    /\ a \in DOMAIN depServices
    /\ \/ b \in depServices[a].requires
       \/ b \in depServices[a].after
       \/ b \in DOMAIN depServices /\ a \in depServices[b].before

\* Service a is after b, or b is before a.
OrderedAfter(a, b) ==
    /\ a \in DOMAIN depServices
    /\ b \in DOMAIN depServices
    /\ \/ b \in depServices[a].after
       \/ a \in depServices[b].before

\* Every service named in a list of a service exists.
AllExist ==
    \A n \in DOMAIN depServices :
        depServices[n].requires \cup depServices[n].after \cup depServices[n].before
            \subseteq DOMAIN depServices

\* The services on a cycle through requires, after or before.
OnDependencyCycle ==
    {n \in DepNames : \E c \in DepPaths :
        /\ \E i \in 1..Len(c) : c[i] = n
        /\ \A i \in 1..Len(c) : DependsOn(c[i], c[(i % Len(c)) + 1])}

\* The services on a cycle of two or more services through after or before.
OnOrderingCycle ==
    {n \in DepNames : \E c \in DepPaths :
        /\ Len(c) > 1
        /\ \E i \in 1..Len(c) : c[i] = n
        /\ \A i \in 1..Len(c) : OrderedAfter(c[i], c[(i % Len(c)) + 1])}

\* C33, as stated: services that form a cycle through requires, before or
\* after are rejected with a format error that names the services of the cycle.
C33_DependencyCyclesRejected ==
    (AllExist /\ OnDependencyCycle # {}) =>
        /\ depErr.err = "loop"
        /\ OnDependencyCycle \subseteq depErr.names

\* C33, amended: when every required service exists, the services are
\* rejected exactly when two or more of them form a cycle through before or
\* after, and the error names the services on such cycles; requires alone,
\* and a service after or before itself, reject nothing.
C33_OrderingCyclesRejected ==
    (\A n \in DOMAIN depServices : depServices[n].requires \subseteq DOMAIN depServices) =>
        /\ (depErr.err = "loop") = (OnOrderingCycle # {})
        /\ depErr.names = OnOrderingCycle

C33_Witness ==
    /\ depErr.err = "loop"
    /\ depErr.names = DepNames
    /\ \E n \in DOMAIN depServices : depServices[n].before # {}
    /\ \E n \in DOMAIN depServices : depServices[n].after # {}
    /\ \A n \in DOMAIN depServices : n \notin depServices[n].after \cup depServices[n].before

\* A check that a combined plan holds has its timeout below its period.
TimeoutBelowPeriod(published) ==
    (published # Nil /\ Deref(published).err = "") =>
        Deref(published).timeout < Deref(published).period

\* C34: in every combined plan that is published the effective timeout of a
\* health check is strictly less than its effective period, defaults included.
C34_TimeoutBelowPeriod ==
    /\ TimeoutBelowPeriod(chkCombined.checked)
    /\ TimeoutBelowPeriod(chkCombined.capped)

\* Task k of refresh Change c starts.
RefreshStarts(c, k) == refStatus[c][k] = "Do" /\ refStatus'[c][k] = "Doing"

\* C35: in a refresh Change the upload task does not start before the
\* prepare task is Done, and the complete task does not start before the
\* upload task is Done.
C35_RefreshTasksInSequence ==
    [][\A c \in Changes :
          /\ RefreshStarts(c, "firmware-refresh-upload") =>
                refStatus[c]["firmware-refresh-prepare"] = "Done"
          /\ RefreshStarts(c, "firmware-refresh-complete") =>
                refStatus[c]["firmware-refresh-upload"] = "Done"]_vars

\* A step removes a change, a task or a notice from the state.
Removes ==
    \/ \E c \in PruneChangeIds : changes[c].live /\ ~changes'[c].live
    \/ \E t \in PruneTaskIds : tasks[t].live /\ ~tasks'[t].live
    \/ \E k \in NoticeKeys : notices[k].live /\ ~notices'[k].live

\* C36: whenever Prune removes a change, a task or a notice, the state is
\* modified afterwards, so that the Unlock that follows writes a checkpoint
\* without the removed item.
C36_PruneMarksModified ==
    [][Removes => modified']_vars

\* C37: whenever the pairing window is open, the pairing mode in force is
\* single or multiple, never disabled, also after a plan change that
\* switches the mode to disabled while the window is open.
C37_OpenWindowModeEnabled ==
    windowOpen => pmConfig \in {modeSingle, modeMultiple}

\* C38: after EnsureConfig(c) with a configuration c has returned without
\* error, Config() of the controller returns c, the configuration whose
\* duration the controller is to use.
C38_EnsureConfigStoresConfig ==
    \A t \in Threads :
        (plocal[t].ensArg = "cfg" /\ plocal[t].ensEnd = "returned") =>
            Config = plocal[t].ensArg

\* The content of the part in a published plan; before any publish the part
\* is empty.
PartContent(combined) == IF combined = Nil THEN newLayer ELSE Deref(combined)

\* The part is in the changed-part list.
Listed(list, part) == \E i \in DOMAIN list : list[i] = part

\* C40: the changed-part list of a successful operation names a part exactly
\* when the combined content of the part differs from the plan published
\* before, a part that became non-empty included; a part whose combined
\* content is unchanged is not listed.
C40_ChangedListIsDifference ==
    [][planErr' = "" =>
          \A part \in PartNames :
              Listed(changedParts', part) <=> PartContent(Combined') # PartContent(Combined)]_vars
====
